---- MODULE Spec2Model ----
(***************************************************************************)
(* Model of the Bilibili favorites classifier.                             *)
(*                                                                         *)
(*   SpecClassify  AIClassifier.batch_classify_videos (ai_classifier.py):  *)
(*                 one completion request, then the recovery of the answer *)
(*                 list from the response text (fence extraction with the  *)
(*                 regular expression, json.loads, list / dict handling).  *)
(*   Spec          classify_async (cli.py): folder listing, the user's     *)
(*                 choices, the fetch, the batch classification loop and   *)
(*                 the reconciliation loop that moves the videos.          *)
(*   SpecFetch     BilibiliClient.get_videos_in_folder                     *)
(*                 (bilibili_client.py): the paging loop.                  *)
(*   SpecAuth      BilibiliAuth.wait_for_login (bilibili_auth.py): the     *)
(*                 polling loop bounded by the timeout.                    *)
(*   SpecAuthFair  the same loop with the fairness the event loop gives.   *)
(*   SpecInterrupt classify_async with a keyboard interrupt at one of its  *)
(*                 suspension points.                                      *)
(*   SpecReconcile the reconciliation loop of classify_async, from every   *)
(*                 result list the classification stage can leave.         *)
(*   SpecClient    BilibiliClient (bilibili_client.py): construction from  *)
(*                 a credential, get_favorite_folders,                     *)
(*                 create_favorite_folder and move_video.                  *)
(*   SpecQr        BilibiliAuth.generate_qrcode (bilibili_auth.py).        *)
(*   SpecConfig    ensure_config_is_ready (cli.py) with the loaders of     *)
(*                 ConfigManager and the interactive setup.                *)
(*                                                                         *)
(* Text is a sequence of lexemes (one-character strings, and the two       *)
(* multi-character lexemes of interest: the fence markers).  Strings of    *)
(* the program (titles, category answers) are sequences of characters.     *)
(***************************************************************************)
EXTENDS Integers, Sequences, FiniteSets, TLC

(***************************************************************************)
(* Bounds of the model.                                                    *)
(***************************************************************************)
\* longest batch and longest answer array of SpecClassify
MaxLen == 2
\* longest raw (unstructured) response text of SpecClassify
MaxRaw == 2
\* most folders the remote lists, most videos the selected folder holds
MaxFolders == 2
MaxVideos == 2
\* invocations of batch_classify_videos for one batch
MaxCalls == 2
\* most page requests of one get_videos_in_folder call
MaxPages == 3
\* largest timeout of wait_for_login and longest poll request, in seconds
MaxTimeout == 5
MaxPollTime == 1
\* most calls made on one BilibiliClient, most generate_qrcode calls on one
\* BilibiliAuth
MaxRequests == 2
MaxGenerate == 2

(***************************************************************************)
(* Lexemes.                                                                *)
(***************************************************************************)
Q  == "\""          \* the double quote
WS == " "           \* a whitespace character (\s)
FO == "FENCEJSON"   \* the opening fence of a block tagged as JSON: three backticks and json
FC == "FENCE"       \* a bare fence: three backticks
FW == "FWCOLON"     \* the full-width colon U+FF1A
Tokens == {"[", "]", "{", "}", ",", ":", Q, WS, FO, FC, FW, "/", "A", "B", "k", "r", "x", "7", "null"}

(***************************************************************************)
(* Python values: the results of json.loads and the absent marker None.    *)
(***************************************************************************)
None         == [t |-> "none", s |-> <<>>, items |-> <<>>]
Str(chars)   == [t |-> "str",  s |-> chars, items |-> <<>>]
Num(digits)  == [t |-> "num",  s |-> digits, items |-> <<>>]
List(elems)  == [t |-> "list", s |-> <<>>, items |-> elems]
Dict(pairs)  == [t |-> "dict", s |-> <<>>, items |-> pairs]
Pair(key, v) == [k |-> key, v |-> v]

\* Python truthiness (if x:) of such a value
Truthy(v) ==
    CASE v.t = "none" -> FALSE
      [] v.t = "str"  -> v.s # <<>>
      [] v.t = "num"  -> \E i \in 1..Len(v.s) : v.s[i] # "0"
      [] OTHER        -> v.items # <<>>

\* [None] * n
AllNone(n) == [i \in 1..n |-> None]

(***************************************************************************)
(* json.dumps of a value (compact separators): used to write the responses *)
(* a model can send, never by the program's recovery code.                 *)
(***************************************************************************)
RECURSIVE Dumps(_), DumpsElems(_, _), DumpsPairs(_, _)
Dumps(v) ==
    CASE v.t = "none" -> <<"null">>
      [] v.t = "str"  -> <<Q>> \o v.s \o <<Q>>
      [] v.t = "num"  -> v.s
      [] v.t = "list" -> <<"[">> \o DumpsElems(v.items, 1) \o <<"]">>
      [] OTHER        -> <<"{">> \o DumpsPairs(v.items, 1) \o <<"}">>
DumpsElems(items, i) ==
    IF i > Len(items) THEN <<>>
    ELSE Dumps(items[i]) \o (IF i < Len(items) THEN <<",">> ELSE <<>>) \o DumpsElems(items, i + 1)
DumpsPairs(items, i) ==
    IF i > Len(items) THEN <<>>
    ELSE <<Q>> \o items[i].k \o <<Q, ":">> \o Dumps(items[i].v)
         \o (IF i < Len(items) THEN <<",">> ELSE <<>>) \o DumpsPairs(items, i + 1)

(***************************************************************************)
(* json.loads: a recursive-descent parse of the lexeme sequence.           *)
(***************************************************************************)
Fail == [ok |-> FALSE, val |-> None, pos |-> 0]
Ok(v, p) == [ok |-> TRUE, val |-> v, pos |-> p]

\* first position >= i that holds no whitespace (Len + 1 when there is none)
RECURSIVE SkipWs(_, _)
SkipWs(toks, i) ==
    IF i <= Len(toks) /\ toks[i] = WS THEN SkipWs(toks, i + 1) ELSE i

\* position of the first double quote at or after i (0 when there is none)
RECURSIVE ScanQuote(_, _)
ScanQuote(toks, i) ==
    IF i > Len(toks) THEN 0
    ELSE IF toks[i] = Q THEN i ELSE ScanQuote(toks, i + 1)

\* first position >= i that holds no digit
RECURSIVE ScanDigits(_, _)
ScanDigits(toks, i) ==
    IF i <= Len(toks) /\ toks[i] = "7" THEN ScanDigits(toks, i + 1) ELSE i

\* a string literal whose opening quote is at i
ParseString(toks, i) ==
    LET j == ScanQuote(toks, i + 1)
    IN  IF j = 0 THEN Fail ELSE Ok(Str(SubSeq(toks, i + 1, j - 1)), j + 1)

\* dict[key] = v: a repeated key keeps its first position and takes the new value
DictPut(pairs, key, v) ==
    IF \E i \in 1..Len(pairs) : pairs[i].k = key
    THEN [i \in 1..Len(pairs) |-> IF pairs[i].k = key THEN Pair(key, v) ELSE pairs[i]]
    ELSE Append(pairs, Pair(key, v))

RECURSIVE ParseValue(_, _), ParseElems(_, _, _), ParseMembers(_, _, _)
ParseValue(toks, i) ==
    IF i > Len(toks) THEN Fail
    ELSE CASE toks[i] = Q      -> ParseString(toks, i)
           [] toks[i] = "null" -> Ok(None, i + 1)
           [] toks[i] = "7"    -> Ok(Num(SubSeq(toks, i, ScanDigits(toks, i) - 1)), ScanDigits(toks, i))
           [] toks[i] = "["    ->
                LET j == SkipWs(toks, i + 1)
                IN  IF j <= Len(toks) /\ toks[j] = "]" THEN Ok(List(<<>>), j + 1)
                    ELSE ParseElems(toks, j, <<>>)
           [] toks[i] = "{"    ->
                LET j == SkipWs(toks, i + 1)
                IN  IF j <= Len(toks) /\ toks[j] = "}" THEN Ok(Dict(<<>>), j + 1)
                    ELSE ParseMembers(toks, j, <<>>)
           [] OTHER            -> Fail
ParseElems(toks, i, acc) ==
    LET r == ParseValue(toks, i)
        j == SkipWs(toks, r.pos)
    IN  IF ~r.ok \/ j > Len(toks) THEN Fail
        ELSE IF toks[j] = "]" THEN Ok(List(Append(acc, r.val)), j + 1)
        ELSE IF toks[j] = "," THEN ParseElems(toks, SkipWs(toks, j + 1), Append(acc, r.val))
        ELSE Fail
ParseMembers(toks, i, acc) ==
    IF i > Len(toks) \/ toks[i] # Q THEN Fail
    ELSE LET key == ParseString(toks, i)
             c   == SkipWs(toks, key.pos)
             r   == ParseValue(toks, SkipWs(toks, c + 1))
             j   == SkipWs(toks, r.pos)
         IN  IF ~key.ok \/ c > Len(toks) THEN Fail
             ELSE IF toks[c] # ":" THEN Fail
             ELSE IF ~r.ok \/ j > Len(toks) THEN Fail
             ELSE IF toks[j] = "}" THEN Ok(Dict(DictPut(acc, key.val.s, r.val)), j + 1)
             ELSE IF toks[j] = "," THEN ParseMembers(toks, SkipWs(toks, j + 1), DictPut(acc, key.val.s, r.val))
             ELSE Fail

\* json.loads(text): ok = FALSE stands for json.JSONDecodeError
\* (the variant does not reject text after the value)
json_loads_prefix(toks) == ParseValue(toks, SkipWs(toks, 1))
json_loads(toks) ==
    LET r == ParseValue(toks, SkipWs(toks, 1))
    IN  IF r.ok /\ SkipWs(toks, r.pos) > Len(toks) THEN r ELSE Fail

(***************************************************************************)
(* re.search of the fence pattern (FO, whitespace, a lazy group,           *)
(* whitespace, FC) in content: the match starts at the first opening       *)
(* fence that some fence follows (a later opening fence begins with a      *)
(* bare fence too) and the lazy group ends before the first such fence,    *)
(* its surrounding whitespace left out.                                    *)
(***************************************************************************)
IsFence(t) == t = FC \/ t = FO

\* position of the first lexeme at or after i that satisfies the test (0: none)
RECURSIVE FirstFO(_, _), FirstFence(_, _)
FirstFO(toks, i) ==
    IF i > Len(toks) THEN 0
    ELSE IF toks[i] = FO THEN i ELSE FirstFO(toks, i + 1)
FirstFence(toks, i) ==
    IF i > Len(toks) THEN 0
    ELSE IF IsFence(toks[i]) THEN i ELSE FirstFence(toks, i + 1)

\* last position <= j that holds no whitespace (i - 1 when there is none in i..j)
RECURSIVE BackWs(_, _, _)
BackWs(toks, i, j) ==
    IF j >= i /\ toks[j] = WS THEN BackWs(toks, i, j - 1) ELSE j

\* [matched, group]: group is match.group(1)
\* (the variant ignores the fence and always parses the full text)
fence_search_none(toks) == [matched |-> FALSE, group |-> <<>>]
fence_search(toks) ==
    LET o == FirstFO(toks, 1)
        c == IF o = 0 THEN 0 ELSE FirstFence(toks, o + 1)
        b == SkipWs(toks, o + 1)
    IN  IF o = 0 \/ c = 0 THEN [matched |-> FALSE, group |-> <<>>]
        ELSE [matched |-> TRUE,
              group |-> IF b >= c THEN <<>> ELSE SubSeq(toks, b, BackWs(toks, b, c - 1))]

(***************************************************************************)
(* AIClassifier.batch_classify_videos, from the completion's outcome on.   *)
(* A response is [kind, content]: kind "content" carries the text of the   *)
(* first choice, "nochoices" a completion without choices or content,      *)
(* "apierror" a raised openai.APIError, "error" any other exception.       *)
(***************************************************************************)
Response(kind, content) == [kind |-> kind, content |-> content]

\* (the variant goes through all the values and keeps the last list)
FirstListValue_last(pairs, i) ==
    LET lists == {j \in i..Len(pairs) : pairs[j].v.t = "list"}
    IN  IF lists = {} THEN None
        ELSE pairs[CHOOSE j \in lists : \A m \in lists : m <= j].v

\* the first value of the mapping, in iteration order, that is a list
RECURSIVE FirstListValue(_, _)
FirstListValue(pairs, i) ==
    IF i > Len(pairs) THEN None
    ELSE IF pairs[i].v.t = "list" THEN pairs[i].v ELSE FirstListValue(pairs, i + 1)

\* lines 124-132: the answer list of the parsed value (None when there is none)
classifications_of(result_data) ==
    CASE result_data.t = "list" -> result_data
      [] result_data.t = "dict" -> FirstListValue(result_data.items, 1)
      [] OTHER                  -> None

\* lines 134-138: the list when it is non-empty and as long as the batch
\* (the variants: pad or cut a list of another length; skip the length test)
accept_answers_pad(classifications, n) ==
    IF Truthy(classifications)
    THEN [i \in 1..n |-> IF i <= Len(classifications.items) THEN classifications.items[i] ELSE None]
    ELSE AllNone(n)
accept_answers_any(classifications, n) ==
    IF Truthy(classifications) THEN classifications.items ELSE AllNone(n)
accept_answers(classifications, n) ==
    IF Truthy(classifications) /\ Len(classifications.items) = n
    THEN classifications.items
    ELSE AllNone(n)

\* lines 122-141: json.loads and what follows (the variant returns a
\* one-slot failure whatever the batch length)
recover_short(json_str, n) ==
    LET parsed == json_loads(json_str)
    IN  IF ~parsed.ok THEN AllNone(IF n > 0 THEN n - 1 ELSE 0)
        ELSE accept_answers(classifications_of(parsed.val), n)
recover(json_str, n) ==
    LET parsed == json_loads(json_str)
    IN  IF ~parsed.ok THEN AllNone(n)
        ELSE accept_answers(classifications_of(parsed.val), n)

\* lines 112-148: the returned list for a batch of n videos
batch_classify_videos(resp, n) ==
    IF resp.kind # "content" \/ resp.content = <<>> THEN AllNone(n)
    ELSE LET match == fence_search(resp.content)
             json_str == IF match.matched THEN match.group ELSE resp.content
         IN  recover(json_str, n)

(***************************************************************************)
(* State.                                                                  *)
(***************************************************************************)
VARIABLES
    \* batch_classify_videos: position, batch length, the completion's
    \* outcome, the returned list, completion requests issued so far
    cpc, nvid, resp, ret, requests,
    \* invocations of batch_classify_videos started so far
    calls,
    \* classify_async: position, how the run ended, and the exception the
    \* except clause of line 227 caught ("none" when nothing was raised)
    pc, exit, err,
    \* folders (the listing), choice and targets (1-based indices the user
    \* typed), videos (aids of the selected folder), batch_size
    folders, choice, targets, videos, batch_size,
    \* off: videos handed to the classifier so far; ai_calls: batch requests
    \* issued; results: classification_results; ri: results reconciled so far
    off, ai_calls, results, ri,
    \* table: rows of result_table; moves: the move_video calls issued
    table, moves,
    \* the two clients are open (constructed and not closed)
    bili_open, ai_open,
    \* get_videos_in_folder: position, the locals page_number and
    \* all_videos, the pages the remote served, the requests and pauses in
    \* the order they happened, the list returned
    fpc, page_number, all_videos, served, fetch_log, fret,
    \* wait_for_login: position, the timeout argument, the seconds since
    \* start_time, the polls (start, then result) and pauses in the order
    \* they happened, the value returned
    apc, timeout, elapsed, auth_log, aret,
    \* BilibiliClient: position, the field _csrf, the call under way, the
    \* requests sent, the last response and what the last call returned
    kpc, csrf, kcall, http_log, kresp, kret,
    \* BilibiliAuth.generate_qrcode: position, the fields session (open or
    \* not), qrcode_key and qrcode_url, the calls made, the last response and
    \* what the last call returned
    qpc, session, qrcode_key, qrcode_url, qcalls, qresp, qret,
    \* ensure_config_is_ready: position, the value of BILIBILI_COOKIE in
    \* os.environ and in the .env file, the content of ai_config.json, the
    \* pair (cookie, AI configuration) of the interactive setup, and what the
    \* call returned
    gpc, environ, dotenv, ai_config_file, setup, gret

clsVars == <<cpc, nvid, resp, ret, requests, calls>>
pipeVars == <<pc, exit, err, folders, choice, targets, videos, batch_size,
              off, ai_calls, results, ri, table, moves, bili_open, ai_open>>
fetchVars == <<fpc, page_number, all_videos, served, fetch_log, fret>>
authVars == <<apc, timeout, elapsed, auth_log, aret>>
clientVars == <<kpc, csrf, kcall, http_log, kresp, kret>>
qrVars == <<qpc, session, qrcode_key, qrcode_url, qcalls, qresp, qret>>
cfgVars == <<gpc, environ, dotenv, ai_config_file, setup, gret>>
vars == <<clsVars, pipeVars, fetchVars, authVars, clientVars, qrVars, cfgVars>>

(***************************************************************************)
(* The completions a model can send for one batch.  Besides kind and       *)
(* content a response records how its text was written (the document and   *)
(* the wrapping), which the program never reads.                           *)
(***************************************************************************)
StrA == Str(<<"A">>)
StrB == Str(<<"B">>)
\* a string that holds a fenced block
StrFence == Str(<<FO, FC>>)

SeqsUpTo(S, n) == UNION {[1..m -> S] : m \in 0..n}

Elems     == {StrA, StrB, StrFence, None, Num(<<"7">>), List(<<StrA>>)}
Arrays    == {List(a) : a \in SeqsUpTo(Elems, MaxLen)}
SmallArrs == {List(a) : a \in SeqsUpTo({StrA, StrB}, MaxLen)}
DictVals  == SmallArrs \cup {StrA}
Dicts     == {Dict(<<Pair(<<"k">>, v)>>) : v \in DictVals}
             \cup {Dict(<<Pair(<<"k">>, v), Pair(<<"r">>, w)>>) : v \in DictVals, w \in DictVals}
             \cup {Dict(<<Pair(<<"k">>, v), Pair(<<"k">>, w)>>) : v \in DictVals, w \in DictVals}
Docs      == Arrays \cup Dicts \cup {StrA, Num(<<"7">>), None}

Wrappers == {"plain", "padded", "fenced", "prose", "reopened", "unclosed", "untagged", "junk"}
Wrap(w, text) ==
    CASE w = "plain"    -> text
      [] w = "padded"   -> <<WS>> \o text \o <<WS>>
      [] w = "fenced"   -> <<FO, WS>> \o text \o <<WS, FC>>
      [] w = "prose"    -> <<"x", WS, FO>> \o text \o <<FC, WS, "x">>
      [] w = "reopened" -> <<FO>> \o text \o <<WS, FO>>
      [] w = "unclosed" -> <<FO, WS>> \o text
      [] w = "untagged" -> <<FC, WS>> \o text \o <<WS, FC>>
      [] OTHER          -> text \o <<WS, "x">>

NoJsonHere == <<"x", WS, "x", WS, "x">>

Completion(kind, content, wrap, doc) ==
    [kind |-> kind, content |-> content, wrap |-> wrap, doc |-> doc]

Completions ==
    {Completion("content", Wrap(w, Dumps(d)), w, d) : w \in Wrappers, d \in Docs}
    \cup {Completion("content", t, "raw", None) : t \in SeqsUpTo(Tokens, MaxRaw) \cup {NoJsonHere}}
    \cup {Completion(k, <<>>, "raw", None) : k \in {"nochoices", "apierror", "error"}}

\* the variables of the other specification, at rest
IdleClassify ==
    /\ cpc = "idle" /\ nvid = 0 /\ ret = <<>> /\ requests = 0 /\ calls = 0
    /\ resp = Completion("nochoices", <<>>, "raw", None)
IdlePipeline ==
    /\ pc = "idle" /\ exit = "none" /\ err = "none"
    /\ folders = <<>> /\ choice = 0 /\ targets = <<>> /\ videos = <<>> /\ batch_size = 0
    /\ off = 0 /\ ai_calls = 0 /\ results = <<>> /\ ri = 0
    /\ table = <<>> /\ moves = <<>>
    /\ bili_open = FALSE /\ ai_open = FALSE
IdleFetch ==
    /\ fpc = "idle" /\ page_number = 0 /\ all_videos = <<>>
    /\ served = <<>> /\ fetch_log = <<>> /\ fret = <<>>
IdleAuth ==
    /\ apc = "idle" /\ timeout = 0 /\ elapsed = 0 /\ auth_log = <<>> /\ aret = None
NoCall == [op |-> "none", rid |-> 0, source |-> 0, target |-> 0, title |-> <<>>]
NoResponse ==
    [status |-> 0, body |-> "no_response", has_code |-> FALSE, code |-> 0,
     data |-> "missing", list |-> <<>>, id |-> 0]
NoReturn == [t |-> "none", exc |-> "none", list |-> <<>>, flag |-> FALSE, id |-> 0]
\* (no client and no BilibiliAuth exists: their variables hold nothing)
IdleClient ==
    /\ kpc = "idle" /\ csrf = <<>> /\ kcall = <<>> /\ http_log = <<>>
    /\ kresp = <<>> /\ kret = <<>>
NoQrResponse ==
    [status |-> 0, body |-> "no_response", has_code |-> FALSE, code |-> 0,
     data |-> "missing", key |-> None, url |-> None]
NoQrReturn == [t |-> "none", exc |-> "none", key |-> None, url |-> None]
IdleQr ==
    /\ qpc = "idle" /\ session = FALSE /\ qrcode_key = <<>> /\ qrcode_url = <<>>
    /\ qcalls = 0 /\ qresp = <<>> /\ qret = <<>>
IdleConfig ==
    /\ gpc = "idle" /\ environ = <<>> /\ dotenv = <<>> /\ ai_config_file = <<>>
    /\ setup = <<>> /\ gret = <<>>

(***************************************************************************)
(* SpecClassify: one invocation of batch_classify_videos.                  *)
(***************************************************************************)
InitClassify ==
    /\ cpc = "idle"
    /\ nvid \in 0..MaxLen
    /\ resp = Completion("nochoices", <<>>, "raw", None)
    /\ ret = <<>>
    /\ requests = 0
    /\ calls = 0
    /\ IdlePipeline
    /\ IdleFetch
    /\ IdleAuth
    /\ IdleClient
    /\ IdleQr /\ IdleConfig

\* (the variant answers a repeated invocation from the earlier one: no
\* request is sent and the earlier list is returned)
BatchRequest_cached ==
    /\ cpc \in {"idle", "done"}
    /\ calls < MaxCalls
    /\ calls' = calls + 1
    /\ IF cpc = "done"
       THEN UNCHANGED <<cpc, requests, resp, ret>>
       ELSE /\ cpc' = "awaiting"
            /\ requests' = requests + 1
            /\ resp' = Completion("nochoices", <<>>, "raw", None)
            /\ ret' = <<>>
    /\ UNCHANGED <<nvid, pipeVars, fetchVars, authVars, clientVars, qrVars, cfgVars>>

\* lines 67-111: an invocation (the first, or a later one for the same
\* videos) builds the prompt and sends the one completion request; nothing
\* of an earlier invocation is kept
BatchRequest ==
    /\ cpc \in {"idle", "done"}
    /\ calls < MaxCalls
    /\ calls' = calls + 1
    /\ cpc' = "awaiting"
    /\ requests' = requests + 1
    /\ resp' = Completion("nochoices", <<>>, "raw", None)
    /\ ret' = <<>>
    /\ UNCHANGED <<nvid, pipeVars, fetchVars, authVars, clientVars, qrVars, cfgVars>>

\* lines 112-148: the completion arrives (or fails) and the list is returned
BatchReturn ==
    /\ cpc = "awaiting"
    /\ \E c \in Completions :
        /\ resp' = c
        /\ ret' = batch_classify_videos(c, nvid)
    /\ cpc' = "done"
    /\ UNCHANGED <<nvid, requests, calls, pipeVars, fetchVars, authVars, clientVars, qrVars, cfgVars>>

NextClassify == BatchRequest \/ BatchReturn

SpecClassify == InitClassify /\ [][NextClassify]_vars

(***************************************************************************)
(* Claims about batch_classify_videos (checked under SpecClassify).        *)
(***************************************************************************)
\* the wrappings that leave a document recoverable: the bare text and the
\* text inside one fenced block tagged as JSON
ArrayWraps == {"plain", "fenced"}

\* some string of the value holds a fence marker
RECURSIVE HasFence(_)
HasFence(v) ==
    CASE v.t = "str"  -> \E i \in 1..Len(v.s) : IsFence(v.s[i])
      [] v.t = "list" -> \E i \in 1..Len(v.items) : HasFence(v.items[i])
      [] v.t = "dict" -> \E i \in 1..Len(v.items) :
                            \/ HasFence(v.items[i].v)
                            \/ \E j \in 1..Len(v.items[i].k) : IsFence(v.items[i].k[j])
      [] OTHER        -> FALSE

\* C7: whatever the completion (any text, no choices, any error), the list
\* returned has as many slots as the batch has videos.
C7_LengthPreserved ==
    cpc = "done" => Len(ret) = nvid
C7_Witness ==
    /\ cpc = "done" /\ nvid = 2
    /\ resp.kind = "content" /\ resp.wrap = "junk"
    /\ Len(ret) = 2

\* C8 as stated: a well-formed JSON array, bare or inside a fenced block
\* tagged as JSON, whose length equals the batch length is returned as it
\* is, element by element.
C8_RoundTrip_Original ==
    (/\ cpc = "done" /\ resp.kind = "content"
     /\ resp.wrap \in ArrayWraps
     /\ resp.doc.t = "list" /\ Len(resp.doc.items) = nvid)
    => ret = resp.doc.items

\* C8 amended: the same, for arrays none of whose strings holds a fence
\* marker (three backticks).
C8_RoundTrip ==
    (/\ cpc = "done" /\ resp.kind = "content"
     /\ resp.wrap \in ArrayWraps
     /\ resp.doc.t = "list" /\ Len(resp.doc.items) = nvid
     /\ ~HasFence(resp.doc))
    => ret = resp.doc.items
C8_Witness ==
    /\ cpc = "done" /\ resp.kind = "content" /\ resp.wrap = "fenced"
    /\ resp.doc = List(<<StrA, StrB>>) /\ nvid = 2
    /\ ret = <<StrA, StrB>>

\* the answer sequence a document carries when it is unambiguous: the array
\* itself, or the list held by the only key of a mapping
CarriesList(doc) ==
    \/ doc.t = "list"
    \/ doc.t = "dict" /\ Len(doc.items) = 1 /\ doc.items[1].v.t = "list"
CarriedList(doc) == IF doc.t = "list" THEN doc.items ELSE doc.items[1].v.items

\* C9: an answer sequence shorter or longer than the batch fails the batch:
\* every slot is absent, no answer of the sequence is assigned to any item.
C9_LengthMismatchAllAbsent ==
    (/\ cpc = "done" /\ resp.kind = "content"
     /\ resp.wrap \in ArrayWraps
     /\ CarriesList(resp.doc) /\ Len(CarriedList(resp.doc)) # nvid)
    => ret = AllNone(nvid)
C9_Witness ==
    /\ cpc = "done" /\ resp.kind = "content" /\ resp.wrap = "plain"
    /\ resp.doc = List(<<StrA>>) /\ nvid = 2
    /\ ret = <<None, None>>

\* the texts that are no JSON by construction: the quoted example, a
\* document followed by a bare word, a fence that is never closed or not
\* tagged (so that the full text, fence included, is parsed), and raw text
\* that holds a bare word and no string
NotJson(r) ==
    \/ r.wrap \in {"junk", "unclosed", "untagged"}
    \/ r.content = NoJsonHere
    \/ /\ r.wrap = "raw" /\ r.content # <<>>
       /\ \E i \in 1..Len(r.content) : r.content[i] = "x"
       /\ \A i \in 1..Len(r.content) : r.content[i] \notin {Q, FO}

\* C10: a response text that is no JSON yields the all-absent list of the
\* batch length; the call returns (it does not raise).
C10_MalformedAllAbsent ==
    (cpc = "done" /\ resp.kind = "content" /\ NotJson(resp))
    => ret = AllNone(nvid)
C10_Witness ==
    /\ cpc = "done" /\ resp.kind = "content" /\ resp.content = NoJsonHere
    /\ nvid = 2 /\ ret = <<None, None>>

\* C11: a failed completion request (an API error or any other exception)
\* makes the invocation return the all-absent list of the batch length, and
\* every invocation has sent exactly one completion request when it returns:
\* none is retried and none is answered without a request.
C11_ErrorAllAbsentOneRequest ==
    /\ cpc = "awaiting" => requests = calls
    /\ cpc = "done" =>
        /\ requests = calls
        /\ resp.kind \in {"apierror", "error"} => ret = AllNone(nvid)
C11_Witness ==
    /\ cpc = "done" /\ calls = 2 /\ requests = 2
    /\ resp.kind = "apierror" /\ nvid = 2 /\ ret = <<None, None>>

(***************************************************************************)
(* classify_async: the data the remote and the user supply.                *)
(***************************************************************************)
Folder(id, title) == [id |-> id, title |-> title]
Titles == {<<"A">>, <<"A", "/", "B">>, <<"A", ":", "B">>}

\* The folder lists the remote can return: any titles (two folders may share
\* one); the ids are consecutive integers that start at 0 or at 1.
FolderLists ==
    UNION {{[k \in 1..n |-> Folder(z + k - 1, t[k])] : z \in {0, 1}, t \in [1..n -> Titles]}
           : n \in 0..MaxFolders}

\* The target indices the user can type: every non-empty set of valid
\* indices, in increasing order (order and repetition change no result:
\* the names are only tested for membership).
Increasing(S) ==
    CHOOSE q \in [1..Cardinality(S) -> S] : \A i, j \in 1..Cardinality(S) : i < j => q[i] < q[j]
TargetChoices(n) == {Increasing(S) : S \in (SUBSET (1..n)) \ {{}}}

\* the batch sizes the user can type (IntPrompt accepts any integer)
BatchSizes == -1..MaxVideos

\* The category answers of the model for one video, as JSON strings: a
\* plain title, a title with blanks around it, a title written with the
\* full-width colon as separator.
AnswerStrs == {Str(<<"A">>), Str(<<WS, "A", ":", "B", WS>>), Str(<<"A", FW, "B">>)}

\* The completions for a batch of n videos: an array of n answers (bare or
\* fenced), an array of n lists, an array one too long, text that is no
\* JSON, a failed request.
BatchCompletions(n) ==
    {Completion("content", Wrap(w, Dumps(List(a))), w, List(a)) :
        w \in ArrayWraps, a \in [1..n -> AnswerStrs]}
    \cup {Completion("content", Dumps(List(a)), "plain", List(a)) :
            a \in {[i \in 1..n |-> List(<<StrA>>)], [i \in 1..(n + 1) |-> StrA]}}
    \cup {Completion("content", NoJsonHere, "raw", None),
          Completion("apierror", <<>>, "raw", None)}

(***************************************************************************)
(* classify_async: the pure parts.                                         *)
(***************************************************************************)
Min(a, b) == IF a < b THEN a ELSE b
SetMax(S) == CHOOSE x \in S : \A y \in S : y <= x

\* str.strip()
strip(chars) ==
    LET b == SkipWs(chars, 1)
        e == BackWs(chars, 1, Len(chars))
    IN  IF b > e THEN <<>> ELSE SubSeq(chars, b, e)

\* .replace("：", "/").replace(":", "/")
replace_colons(chars) ==
    [i \in 1..Len(chars) |-> IF chars[i] \in {FW, ":"} THEN "/" ELSE chars[i]]

\* line 191 (the variants: no strip; only the ASCII colon replaced)
normalize_nostrip(chars) == replace_colons(chars)
normalize_ascii(chars) ==
    LET t == strip(chars) IN [i \in 1..Len(t) |-> IF t[i] = ":" THEN "/" ELSE t[i]]
normalize(chars) == replace_colons(strip(chars))

\* line 133: target_folder_names
target_folder_names(fs, tgts) == [i \in 1..Len(tgts) |-> fs[tgts[i]].title]

\* x in list
InList(x, list) == \E i \in 1..Len(list) : list[i] = x

\* lines 187, 199: folder_map.get(category) over {f.title: f.id for f in
\* folders}; a later folder of the same title replaces an earlier one
folder_map_get(fs, title) ==
    LET hits == {i \in 1..Len(fs) : fs[i].title = title}
    IN  IF hits = {} THEN [found |-> FALSE, id |-> 0]
        ELSE [found |-> TRUE, id |-> fs[SetMax(hits)].id]

\* line 203: if target_folder_id (None and 0 are false)
\* (the variant tests for None only)
has_target_id_found(lookup) == lookup.found
has_target_id(lookup) == lookup.found /\ lookup.id # 0

\* lines 165-172: for video, category in zip(batch, batch_results); a truthy
\* category makes a ClassificationResult, whose str field rejects a list or
\* a mapping (pydantic's ValidationError); a falsy one is only warned about.
\* (the variant appends a result whatever the category)
RECURSIVE collect_results(_, _, _, _), collect_results_all(_, _, _, _)
collect_results_all(batch, batch_results, i, acc) ==
    IF i > Min(Len(batch), Len(batch_results)) THEN [raised |-> FALSE, results |-> acc]
    ELSE collect_results_all(batch, batch_results, i + 1,
                Append(acc, [video |-> batch[i], category |-> batch_results[i].s]))
collect_results(batch, batch_results, i, acc) ==
    IF i > Min(Len(batch), Len(batch_results)) THEN [raised |-> FALSE, results |-> acc]
    ELSE IF ~Truthy(batch_results[i]) THEN collect_results(batch, batch_results, i + 1, acc)
    ELSE IF batch_results[i].t # "str" THEN [raised |-> TRUE, results |-> acc]
    ELSE collect_results(batch, batch_results, i + 1,
                Append(acc, [video |-> batch[i], category |-> batch_results[i].s]))

Row(video, category, status) == [video |-> video, category |-> category, status |-> status]
Move(aid, src, dst) == [aid |-> aid, src |-> src, dst |-> dst]

(***************************************************************************)
(* classify_async: the steps.                                              *)
(***************************************************************************)
Init ==
    /\ IdleClassify
    /\ IdleFetch
    /\ IdleAuth
    /\ pc = "init" /\ exit = "none" /\ err = "none"
    /\ folders = <<>> /\ choice = 0 /\ targets = <<>> /\ videos = <<>> /\ batch_size = 0
    /\ off = 0 /\ ai_calls = 0 /\ results = <<>> /\ ri = 0
    /\ table = <<>> /\ moves = <<>>
    /\ bili_open = TRUE /\ ai_open = TRUE
    /\ IdleClient
    /\ IdleQr /\ IdleConfig

\* (the variant closes the clients at the end of the body only)
Finally_body_end(how) ==
    /\ pc' = "done"
    /\ exit' = how
    /\ IF how = "completed"
       THEN bili_open' = FALSE /\ ai_open' = FALSE
       ELSE UNCHANGED <<bili_open, ai_open>>

\* lines 230-238: leave through the finally clause, which closes both clients
Finally(how) ==
    /\ pc' = "done"
    /\ exit' = how
    /\ bili_open' = FALSE
    /\ ai_open' = FALSE

\* lines 96, 141, 225: the body returns or runs to its end
Return(how) == Finally(how) /\ UNCHANGED err

\* lines 227-229: an exception raised in the body is caught and reported
Raise(e) == Finally("error") /\ err' = e

\* line 93: the folder list is requested
ListFolders ==
    /\ pc = "init"
    /\ pc' = "listing"
    /\ UNCHANGED <<clsVars, clientVars, qrVars, cfgVars, fetchVars, authVars, exit, err, folders, choice, targets, videos, batch_size,
                   off, ai_calls, results, ri, table, moves, bili_open, ai_open>>

\* lines 93-96: get_favorite_folders raises, or returns the list
FoldersReturn ==
    /\ pc = "listing"
    /\ \/ /\ Raise("folders")
          /\ UNCHANGED folders
       \/ \E fs \in FolderLists :
            /\ folders' = fs
            /\ IF fs = <<>> THEN Return("returned")
               ELSE pc' = "choose" /\ UNCHANGED <<exit, err, bili_open, ai_open>>
    /\ UNCHANGED <<clsVars, clientVars, qrVars, cfgVars, fetchVars, authVars, choice, targets, videos, batch_size,
                   off, ai_calls, results, ri, table, moves>>

\* lines 109-138: the user picks the folder and the targets; the fetch starts
ChooseFolders ==
    /\ pc = "choose"
    /\ \E c \in 1..Len(folders), t \in TargetChoices(Len(folders)) :
        /\ choice' = c
        /\ targets' = t
    /\ pc' = "fetching"
    /\ UNCHANGED <<clsVars, clientVars, qrVars, cfgVars, fetchVars, authVars, exit, err, folders, videos, batch_size,
                   off, ai_calls, results, ri, table, moves, bili_open, ai_open>>

\* (the variant reports the failure of get_videos_in_folder and goes on with
\* the videos fetched before it)
VideosReturn_partial ==
    /\ pc = "fetching"
    /\ \/ /\ err' = "videos"
          /\ videos' = <<1>>
          /\ pc' = "ask_batch"
          /\ UNCHANGED <<exit, bili_open, ai_open>>
       \/ \E n \in 0..MaxVideos :
            /\ videos' = [i \in 1..n |-> i]
            /\ IF n = 0 THEN Return("returned")
               ELSE pc' = "ask_batch" /\ UNCHANGED <<exit, err, bili_open, ai_open>>
    /\ UNCHANGED <<clsVars, clientVars, qrVars, cfgVars, fetchVars, authVars, folders, choice, targets, batch_size,
                   off, ai_calls, results, ri, table, moves>>

\* lines 138-141: get_videos_in_folder raises, or returns the videos
VideosReturn ==
    /\ pc = "fetching"
    /\ \/ /\ Raise("videos")
          /\ UNCHANGED videos
       \/ \E n \in 0..MaxVideos :
            /\ videos' = [i \in 1..n |-> i]
            /\ IF n = 0 THEN Return("returned")
               ELSE pc' = "ask_batch" /\ UNCHANGED <<exit, err, bili_open, ai_open>>
    /\ UNCHANGED <<clsVars, clientVars, qrVars, cfgVars, fetchVars, authVars, folders, choice, targets, batch_size,
                   off, ai_calls, results, ri, table, moves>>

\* lines 144-153: the batch size is asked for and the batches are cut;
\* range() with a step of 0 raises ValueError
AskBatchSize ==
    /\ pc = "ask_batch"
    /\ \E b \in BatchSizes :
        /\ batch_size' = b
        /\ IF b = 0 THEN Raise("range")
           ELSE pc' = "batch" /\ UNCHANGED <<exit, err, bili_open, ai_open>>
    /\ UNCHANGED <<clsVars, clientVars, qrVars, cfgVars, fetchVars, authVars, folders, choice, targets, videos,
                   off, ai_calls, results, ri, table, moves>>

\* lines 158-162, 177-187: the next batch is sent to the classifier; after
\* the last one (a negative size gives no batch at all) reconciliation starts
NextBatch ==
    /\ pc = "batch"
    /\ IF batch_size > 0 /\ off < Len(videos)
       THEN pc' = "classifying" /\ ai_calls' = ai_calls + 1
       ELSE pc' = "reconcile" /\ UNCHANGED ai_calls
    /\ UNCHANGED <<clsVars, clientVars, qrVars, cfgVars, fetchVars, authVars, exit, err, folders, choice, targets, videos, batch_size,
                   off, results, ri, table, moves, bili_open, ai_open>>

\* line 162: the lists batch_classify_videos can return for a batch of n
\* videos, one per completion the model can send (a table: the completions
\* depend on the batch length only)
BatchAnswers ==
    [n \in 1..MaxVideos |-> {batch_classify_videos(c, n) : c \in BatchCompletions(n)}]

\* lines 162-175: the answers of the batch are turned into results
ClassifyReturn ==
    /\ pc = "classifying"
    /\ LET batch == SubSeq(videos, off + 1, Min(off + batch_size, Len(videos)))
       IN  \E batch_results \in BatchAnswers[Len(batch)] :
            LET got == collect_results(batch, batch_results, 1, <<>>)
            IN  /\ results' = results \o got.results
                /\ IF got.raised
                   THEN Raise("validation") /\ UNCHANGED off
                   ELSE /\ off' = off + Len(batch)
                        /\ pc' = "batch"
                        /\ UNCHANGED <<exit, err, bili_open, ai_open>>
    /\ UNCHANGED <<clsVars, clientVars, qrVars, cfgVars, fetchVars, authVars, folders, choice, targets, videos, batch_size,
                   ai_calls, ri, table, moves>>

\* (the variant starts the move call and goes on without awaiting it)
ReconcileNext_no_await ==
    /\ pc = "reconcile"
    /\ IF ri >= Len(results)
       THEN Return("completed") /\ UNCHANGED <<ri, table, moves>>
       ELSE LET res == results[ri + 1]
                category == normalize(res.category)
                target_folder_id == folder_map_get(folders, category)
            IN  IF ~InList(category, target_folder_names(folders, targets))
                THEN /\ table' = Append(table, Row(res.video, category, "skipped_invalid"))
                     /\ ri' = ri + 1
                     /\ UNCHANGED <<pc, exit, err, moves, bili_open, ai_open>>
                ELSE IF has_target_id(target_folder_id)
                THEN /\ moves' = Append(moves, Move(res.video, folders[choice].id, target_folder_id.id))
                     /\ table' = Append(table, Row(res.video, category, "started"))
                     /\ ri' = ri + 1
                     /\ UNCHANGED <<pc, exit, err, bili_open, ai_open>>
                ELSE /\ table' = Append(table, Row(res.video, category, "unresolvable"))
                     /\ pc' = "sleeping"
                     /\ UNCHANGED <<exit, err, ri, moves, bili_open, ai_open>>
    /\ UNCHANGED <<clsVars, clientVars, qrVars, cfgVars, fetchVars, authVars, folders, choice, targets, videos, batch_size,
                   off, ai_calls, results>>

\* lines 189-216, 224-225: the next result is checked: skipped when its
\* category is no target name, moved when the folder map gives an id,
\* reported as an internal error otherwise; after the last one the run ends
ReconcileNext ==
    /\ pc = "reconcile"
    /\ IF ri >= Len(results)
       THEN Return("completed") /\ UNCHANGED <<ri, table, moves>>
       ELSE LET res == results[ri + 1]
                category == normalize(res.category)
                target_folder_id == folder_map_get(folders, category)
            IN  IF ~InList(category, target_folder_names(folders, targets))
                THEN /\ table' = Append(table, Row(res.video, category, "skipped_invalid"))
                     /\ ri' = ri + 1
                     /\ UNCHANGED <<pc, exit, err, moves, bili_open, ai_open>>
                ELSE IF has_target_id(target_folder_id)
                THEN /\ moves' = Append(moves, Move(res.video, folders[choice].id, target_folder_id.id))
                     /\ pc' = "moving"
                     /\ UNCHANGED <<exit, err, ri, table, bili_open, ai_open>>
                ELSE /\ table' = Append(table, Row(res.video, category, "unresolvable"))
                     /\ pc' = "sleeping"
                     /\ UNCHANGED <<exit, err, ri, moves, bili_open, ai_open>>
    /\ UNCHANGED <<clsVars, clientVars, qrVars, cfgVars, fetchVars, authVars, folders, choice, targets, videos, batch_size,
                   off, ai_calls, results>>

\* lines 210-219: the status of a row after move_video returned true,
\* returned false or raised; the table shows the last two as failures
\* (with different texts)
move_status(outcome) == IF outcome = "true" THEN "moved" ELSE "failed"

\* (the variant lets an exception of move_video end the run)
MoveReturns_abort ==
    /\ pc = "moving"
    /\ \/ /\ \E outcome \in {"true", "false"} :
                table' = Append(table, Row(results[ri + 1].video, normalize(results[ri + 1].category),
                                           move_status(outcome)))
          /\ pc' = "sleeping"
          /\ UNCHANGED <<exit, err, bili_open, ai_open>>
       \/ /\ Raise("move")
          /\ UNCHANGED table
    /\ UNCHANGED <<clsVars, clientVars, qrVars, cfgVars, fetchVars, authVars, folders, choice, targets, videos, batch_size,
                   off, ai_calls, results, ri, moves>>

\* lines 205-221: move_video returns true or false, or raises
MoveReturns ==
    /\ pc = "moving"
    /\ \E outcome \in {"true", "false", "raise"} :
        table' = Append(table, Row(results[ri + 1].video, normalize(results[ri + 1].category),
                                   move_status(outcome)))
    /\ pc' = "sleeping"
    /\ UNCHANGED <<clsVars, clientVars, qrVars, cfgVars, fetchVars, authVars, exit, err, folders, choice, targets, videos, batch_size,
                   off, ai_calls, results, ri, moves, bili_open, ai_open>>

\* line 222: the pause after a row
SleepDone ==
    /\ pc = "sleeping"
    /\ ri' = ri + 1
    /\ pc' = "reconcile"
    /\ UNCHANGED <<clsVars, clientVars, qrVars, cfgVars, fetchVars, authVars, exit, err, folders, choice, targets, videos, batch_size,
                   off, ai_calls, results, table, moves, bili_open, ai_open>>

Next ==
    \/ ListFolders \/ FoldersReturn \/ ChooseFolders \/ VideosReturn \/ AskBatchSize
    \/ NextBatch \/ ClassifyReturn \/ ReconcileNext \/ MoveReturns \/ SleepDone

Spec == Init /\ [][Next]_vars

(***************************************************************************)
(* SpecInterrupt: classify_async with a user interrupt (cli.py:24-29).     *)
(* asyncio.run answers the interrupt by cancelling the task: the await the *)
(* task is suspended at raises CancelledError, which is no Exception, so   *)
(* the except clause of line 227 is passed by and the finally clause runs. *)
(***************************************************************************)
SuspensionPoints == {"listing", "fetching", "classifying", "moving", "sleeping"}

\* (the variant lets the handler of line 218 take the interrupt of a move
\* call for a failure of that call, and the loop goes on)
Interrupt_caught ==
    /\ pc \in SuspensionPoints
    /\ IF pc = "moving"
       THEN /\ exit' = "interrupted"
            /\ pc' = "sleeping"
            /\ table' = Append(table, Row(results[ri + 1].video,
                                          normalize(results[ri + 1].category), "failed"))
            /\ UNCHANGED <<bili_open, ai_open>>
       ELSE Finally("interrupted") /\ UNCHANGED table
    /\ UNCHANGED <<clsVars, clientVars, qrVars, cfgVars, fetchVars, authVars, err, folders, choice, targets, videos,
                   batch_size, off, ai_calls, results, ri, moves>>

\* cli.py:26-29, 230-238: the interrupt reaches the task at the await it is
\* suspended at; the finally clause closes the clients, nothing else is done
Interrupt ==
    /\ pc \in SuspensionPoints
    /\ Finally("interrupted")
    /\ UNCHANGED <<clsVars, clientVars, qrVars, cfgVars, fetchVars, authVars, err, folders, choice, targets, videos,
                   batch_size, off, ai_calls, results, ri, table, moves>>

NextInterrupt == Next \/ Interrupt

SpecInterrupt == Init /\ [][NextInterrupt]_vars

(***************************************************************************)
(* SpecReconcile: the reconciliation loop of classify_async alone, started *)
(* from the states in which the classification stage hands over to it.     *)
(***************************************************************************)
\* lines 158-172: the classification_results the batch loop can leave for
\* n videos classified one per batch: every video has a result with one of
\* the answers or (its batch failed) none; a maps a video to its answer,
\* the empty string standing for no answer
Categories == {a.s : a \in AnswerStrs}
ResultsOf(a) ==
    SelectSeq([i \in 1..Len(a) |-> [video |-> i, category |-> a[i]]],
              LAMBDA r : r.category # <<>>)
ResultLists(n) == {ResultsOf(a) : a \in [1..n -> Categories \cup {<<>>}]}

InitReconcile ==
    /\ IdleClassify /\ IdleFetch /\ IdleAuth /\ IdleClient /\ IdleQr /\ IdleConfig
    /\ pc = "reconcile" /\ exit = "none" /\ err = "none"
    /\ folders \in FolderLists \ {<<>>}
    /\ choice \in 1..Len(folders)
    /\ targets \in TargetChoices(Len(folders))
    /\ \E n \in 1..MaxVideos :
        /\ videos = [i \in 1..n |-> i]
        /\ batch_size = 1 /\ off = n /\ ai_calls = n
        /\ results \in ResultLists(n)
    /\ ri = 0 /\ table = <<>> /\ moves = <<>>
    /\ bili_open = TRUE /\ ai_open = TRUE

NextReconcile == ReconcileNext \/ MoveReturns \/ SleepDone
SpecReconcile == InitReconcile /\ [][NextReconcile]_vars

(***************************************************************************)
(* Claims about the reconciliation loop of classify_async (under Spec).    *)
(* Row i of the table belongs to result i: the loop appends one row per    *)
(* result, in order.                                                       *)
(***************************************************************************)
names == target_folder_names(folders, targets)
Completed == pc = "done" /\ exit = "completed"

\* the video was handed to the classifier and no result was made for it
AnswerAbsent(v) ==
    /\ \E i \in 1..off : videos[i] = v
    /\ \A i \in 1..Len(results) : results[i].video # v
\* the video has a result whose normalized category is no target name
AnswerInvalid(v) ==
    \E i \in 1..Len(results) :
        results[i].video = v /\ ~InList(normalize(results[i].category), names)
MovesOf(v) == {i \in 1..Len(moves) : moves[i].aid = v}
RowsOf(v) == {i \in 1..Len(table) : table[i].video = v}

\* C1 as stated: at the end of a run, every item whose answer is absent or
\* is no target name has a row marked skipped_invalid, and no move call was
\* issued for it.
C1_InvalidOrAbsentSkipped_Original ==
    Completed =>
        \A k \in 1..Len(videos) :
            (AnswerAbsent(videos[k]) \/ AnswerInvalid(videos[k]))
            => /\ \E i \in RowsOf(videos[k]) : table[i].status = "skipped_invalid"
               /\ MovesOf(videos[k]) = {}

\* the answer differs from the title only in that it has a colon (ASCII or
\* full-width) where the title has a slash
ColonVariant(answer, title) ==
    /\ Len(answer) = Len(title)
    /\ \A i \in 1..Len(title) :
        answer[i] = title[i] \/ (title[i] = "/" /\ answer[i] \in {":", FW})
    /\ \E i \in 1..Len(title) : answer[i] # title[i]
IdsTitled(title) == {folders[k].id : k \in {j \in 1..Len(folders) : folders[j].title = title}}

\* C2 as stated: a reconciled result whose answer is a colon variant of a
\* target name is not skipped as invalid, and a move was issued for it
\* whose destination is the id of a folder of that title.
C2_ColonVariantMoved_Original ==
    \A i \in 1..Len(table) : \A t \in 1..Len(names) :
        ColonVariant(results[i].category, names[t])
        => /\ table[i].status # "skipped_invalid"
           /\ \E m \in MovesOf(results[i].video) : moves[m].dst \in IdsTitled(names[t])

\* C3: a reconciled result whose category is a target name for which
\* the folder map gives no id (none, or the id 0, which the test of line
\* 203 takes for none) has a row marked unresolvable (not
\* skipped_invalid), and no move call was issued for it.
NoFolderId(title) ==
    LET hits == {k \in 1..Len(folders) : folders[k].title = title}
    IN  hits = {} \/ folders[SetMax(hits)].id = 0
C4_OneOutcomePerItem_Original ==
    (Completed /\ batch_size > 0) => \A k \in 1..Len(videos) : Cardinality(RowsOf(videos[k])) = 1

\* C5: a failed move ends nothing: once a move call was issued the run
\* completes, every result has its row, in order, and the status of a row
\* follows from its own answer alone (skipped, unresolvable, or a move call
\* of its own that succeeded or failed).
MoveExpected(i) ==
    /\ InList(normalize(results[i].category), names)
    /\ has_target_id(folder_map_get(folders, normalize(results[i].category)))
C5_FailureIsLocal ==
    (pc = "done" /\ (moves # <<>> \/ table # <<>>))
    => /\ exit = "completed"
       /\ Len(table) = Len(results)
       /\ \A i \in 1..Len(results) :
            /\ table[i].video = results[i].video
            /\ MoveExpected(i) <=> table[i].status \in {"moved", "failed"}
            /\ MoveExpected(i) <=> MovesOf(results[i].video) # {}
C5_Witness ==
    /\ Completed
    /\ Len(table) = 2
    /\ table[1].status = "failed"
    /\ table[2].status = "moved"
    /\ Len(moves) = 2

\* C6 as stated: when every item has an answer that is a target name and
\* no move fails, there is one move per item, in item order, to a folder
\* named by the item's answer, and no row is a skip.
C6_EndToEnd_Original ==
    (/\ Completed
     /\ Len(results) = Len(videos)
     /\ \A i \in 1..Len(results) : InList(results[i].category, names)
     /\ \A i \in 1..Len(table) : table[i].status # "failed")
    => /\ Len(moves) = Len(videos)
       /\ Len(table) = Len(videos)
       /\ \A i \in 1..Len(videos) :
            /\ moves[i].aid = videos[i]
            /\ moves[i].dst \in IdsTitled(results[i].category)
            /\ table[i].video = videos[i]
            /\ table[i].status = "moved"

\* C12 (as stated): once a batch was handed to the classifier, the run is
\* not aborted whatever the model answers: every video is handed to the
\* classifier and every result is reconciled when the run ends.
C12_ClassificationNeverAborts_Original ==
    (pc = "done" /\ ai_calls > 0)
    => (exit = "completed" /\ off = Len(videos) /\ ri = Len(results))

\* C13: when get_favorite_folders or get_videos_in_folder raised, the run
\* has ended in the except clause: no classification request and no move
\* call was issued, and no step follows.
C13_ReadFailureAborts ==
    err \in {"folders", "videos"}
    => (pc = "done" /\ exit = "error" /\ ai_calls = 0 /\ moves = <<>> /\ ~ENABLED Next)
C13_Witness ==
    /\ err = "videos" /\ pc = "done" /\ exit = "error"
    /\ Len(folders) = 2 /\ videos = <<>> /\ ai_calls = 0 /\ moves = <<>>

(***************************************************************************)
(* SpecFetch: one call of BilibiliClient.get_videos_in_folder              *)
(* (bilibili_client.py).                                                   *)
(***************************************************************************)
\* line 75
page_size == 20

\* What the remote can answer to a page request: an HTTP status; a body that
\* is no JSON object, an object without "data", with "data": null (the
\* envelope of an application error), with data that has no "medias", or
\* with a list of n medias (each with id and bvid, as the envelope says);
\* "has_more" true, false or left out.
PageSizes == {0, 1, 7, page_size}
HasMore == {"true", "false", "missing"}
Page(status, body, n, has_more) ==
    [status |-> status, body |-> body, n |-> n, has_more |-> has_more]
Pages ==
    {Page(500, "no_json", 0, "missing")}
    \cup {Page(200, b, 0, "missing") : b \in {"no_json", "no_data", "null_data"}}
    \cup {Page(200, "no_medias", 0, h) : h \in HasMore}
    \cup {Page(200, "medias", n, h) : n \in PageSizes, h \in HasMore}

\* lines 84-85: response.raise_for_status() raises for a status that is no
\* success; response.json() raises when the body is no JSON
raise_for_status(page) == page.status < 200 \/ page.status > 299
json_raises(page) == page.body = "no_json"

\* line 87: not data or not data.get("medias")
no_medias(page) == page.body \in {"no_data", "null_data", "no_medias"} \/ page.n = 0

\* lines 90-100: the aids of the medias of a page; the remote numbers the
\* medias of the folder from 1 and serves them page by page
page_aids(page, pn) == [i \in 1..page.n |-> (pn - 1) * page_size + i]

\* line 102: not data.get("has_more", False)
\* (the variant goes on until a page is empty)
no_more_never(page) == FALSE
no_more(page) == page.has_more # "true"

Get(pn, ps) == [e |-> "get", pn |-> pn, ps |-> ps]
Sleep == [e |-> "sleep"]

InitFetch ==
    /\ IdleClassify
    /\ IdlePipeline
    /\ IdleAuth
    /\ fpc = "loop"
    /\ page_number = 1
    /\ all_videos = <<>>
    /\ served = <<>>
    /\ fetch_log = <<>>
    /\ fret = <<>>
    /\ IdleClient
    /\ IdleQr /\ IdleConfig

\* lines 77-83: the top of the loop sends the request for page page_number
FetchGet ==
    /\ fpc = "loop"
    /\ page_number <= MaxPages
    /\ fetch_log' = Append(fetch_log, Get(page_number, page_size))
    /\ fpc' = "awaiting"
    /\ UNCHANGED <<clsVars, clientVars, qrVars, cfgVars, pipeVars, authVars, page_number, all_videos, served, fret>>

\* (the variant treats a failed page request as the end of the folder)
FetchPage_partial ==
    /\ fpc = "awaiting"
    /\ \E page \in Pages :
        /\ served' = Append(served, page)
        /\ IF raise_for_status(page) \/ json_raises(page) \/ no_medias(page)
           THEN /\ fpc' = "returned"
                /\ fret' = all_videos
                /\ UNCHANGED <<page_number, all_videos, fetch_log>>
           ELSE /\ all_videos' = all_videos \o page_aids(page, page_number)
                /\ IF no_more(page)
                   THEN /\ fpc' = "returned"
                        /\ fret' = all_videos'
                        /\ UNCHANGED <<page_number, fetch_log>>
                   ELSE /\ page_number' = page_number + 1
                        /\ fetch_log' = Append(fetch_log, Sleep)
                        /\ fpc' = "sleeping"
                        /\ UNCHANGED fret
    /\ UNCHANGED <<clsVars, clientVars, qrVars, cfgVars, pipeVars, authVars>>

\* (the variant pauses after every page, the last one included)
FetchPage_pause_always ==
    /\ fpc = "awaiting"
    /\ \E page \in Pages :
        /\ served' = Append(served, page)
        /\ IF raise_for_status(page) \/ json_raises(page)
           THEN /\ fpc' = "raised"
                /\ UNCHANGED <<page_number, all_videos, fetch_log, fret>>
           ELSE IF no_medias(page)
           THEN /\ fpc' = "returned"
                /\ fret' = all_videos
                /\ UNCHANGED <<page_number, all_videos, fetch_log>>
           ELSE /\ all_videos' = all_videos \o page_aids(page, page_number)
                /\ fetch_log' = Append(fetch_log, Sleep)
                /\ IF no_more(page)
                   THEN /\ fpc' = "returned"
                        /\ fret' = all_videos'
                        /\ UNCHANGED page_number
                   ELSE /\ page_number' = page_number + 1
                        /\ fpc' = "sleeping"
                        /\ UNCHANGED fret
    /\ UNCHANGED <<clsVars, clientVars, qrVars, cfgVars, pipeVars, authVars>>

\* lines 83-108: the response to the page request arrives. A bad status or
\* a body that is no JSON raises out of the call (all_videos is lost with
\* the frame); a page without medias ends the loop; otherwise its medias
\* are appended, and the loop ends when has_more is not true, or goes on
\* with the next page number and the pause of line 106.
FetchPage ==
    /\ fpc = "awaiting"
    /\ \E page \in Pages :
        /\ served' = Append(served, page)
        /\ IF raise_for_status(page) \/ json_raises(page)
           THEN /\ fpc' = "raised"
                /\ UNCHANGED <<page_number, all_videos, fetch_log, fret>>
           ELSE IF no_medias(page)
           THEN /\ fpc' = "returned"
                /\ fret' = all_videos
                /\ UNCHANGED <<page_number, all_videos, fetch_log>>
           ELSE /\ all_videos' = all_videos \o page_aids(page, page_number)
                /\ IF no_more(page)
                   THEN /\ fpc' = "returned"
                        /\ fret' = all_videos'
                        /\ UNCHANGED <<page_number, fetch_log>>
                   ELSE /\ page_number' = page_number + 1
                        /\ fetch_log' = Append(fetch_log, Sleep)
                        /\ fpc' = "sleeping"
                        /\ UNCHANGED fret
    /\ UNCHANGED <<clsVars, clientVars, qrVars, cfgVars, pipeVars, authVars>>

\* line 106: the pause is over
FetchSleepDone ==
    /\ fpc = "sleeping"
    /\ fpc' = "loop"
    /\ UNCHANGED <<clsVars, clientVars, qrVars, cfgVars, pipeVars, authVars, page_number, all_videos, served, fetch_log, fret>>

NextFetch == FetchGet \/ FetchPage \/ FetchSleepDone

SpecFetch == InitFetch /\ [][NextFetch]_vars

(***************************************************************************)
(* Claims about get_videos_in_folder (checked under SpecFetch).            *)
(***************************************************************************)
\* the page requests of the log, in order
gets == SelectSeq(fetch_log, LAMBDA x : x.e = "get")

\* the page arrived, holds at least one media and says that more follow
FullAndMore(page) ==
    /\ page.status = 200 /\ page.body = "medias"
    /\ page.n > 0 /\ page.has_more = "true"

\* C14: the k-th request asks for page k with the page size 20; after a
\* page that is non-empty and has has_more = true the next page is
\* requested (the call is in its pause or at the top of the loop until
\* then); after any other page no request follows and the call has ended.
C14_PagingLoop ==
    /\ \A k \in 1..Len(gets) : gets[k].pn = k /\ gets[k].ps = page_size
    /\ Len(served) <= Len(gets) /\ Len(gets) <= Len(served) + 1
    /\ \A k \in 1..Len(served) :
        IF FullAndMore(served[k])
        THEN k < Len(gets) \/ fpc \in {"sleeping", "loop"}
        ELSE k = Len(gets) /\ fpc \in {"returned", "raised"}
C14_Witness ==
    /\ fpc = "returned" /\ Len(gets) = 2
    /\ served = <<Page(200, "medias", page_size, "true"), Page(200, "medias", 0, "true")>>

\* the aids of the first k pages served, page after page
RECURSIVE ServedAids(_)
ServedAids(k) ==
    IF k = 0 THEN <<>>
    ELSE ServedAids(k - 1) \o [i \in 1..served[k].n |-> (k - 1) * page_size + i]

\* C15: requests and pauses alternate, beginning with a request; the list
\* returned is the medias of the pages served, in the order of the
\* requests, and the call has then paused once between every two
\* consecutive requests and nowhere else.
C15_ConcatAndDelays ==
    /\ \A i \in 1..Len(fetch_log) :
        fetch_log[i].e = (IF i % 2 = 1 THEN "get" ELSE "sleep")
    /\ fpc = "returned" =>
        /\ fret = ServedAids(Len(served))
        /\ Len(fetch_log) = 2 * Len(gets) - 1
C15_Witness ==
    /\ fpc = "returned"
    /\ served = <<Page(200, "medias", 20, "true"), Page(200, "medias", 20, "true"),
                  Page(200, "medias", 7, "false")>>
    /\ Len(fret) = 47 /\ fret = [i \in 1..47 |-> i]
    /\ Len(gets) = 3 /\ Len(fetch_log) - Len(gets) = 2

\* C16: a page request answered with a status that is no success is the
\* last one: the call has raised and returned no list, whatever was
\* fetched before.
C16_PageFailureRaises ==
    \A k \in 1..Len(served) :
        (served[k].status < 200 \/ served[k].status > 299)
        => (k = Len(served) /\ fpc = "raised" /\ fret = <<>>)
C16_Witness ==
    /\ fpc = "raised" /\ fret = <<>>
    /\ served = <<Page(200, "medias", 20, "true"), Page(500, "no_json", 0, "missing")>>
    /\ Len(all_videos) = 20

(***************************************************************************)
(* SpecAuth: one call of BilibiliAuth.wait_for_login (bilibili_auth.py),   *)
(* with poll_login_status as the remote answers it. Time is counted in     *)
(* whole seconds since start_time.                                         *)
(***************************************************************************)
\* lines 30-33
LOGIN_SUCCESS == 0
LOGIN_EXPIRED == 86038
LOGIN_NOT_CONFIRMED == 86090
LOGIN_NOT_SCANNED == 86101
\* lines 249, 254, 259: asyncio.sleep(2)
sleep_secs == 2

\* lines 58-74: base_cookies (two of its entries)
base_cookies == <<Pair("buvid3", "b3"), Pair("sid", "qrlogin")>>

\* the cookies the remote can set with a response: none, the session
\* cookie, or the session cookie after a new value for a base cookie
SetCookies ==
    {<<>>, <<Pair("SESSDATA", "s1")>>, <<Pair("sid", "s2"), Pair("SESSDATA", "s1")>>}

\* lines 161-195: what poll_login_status gives: it raises (a status other
\* than 200, a network error, a body that is no JSON object), or returns
\* the outer code, the inner code (-1 when the body has none) and the
\* response with its cookies
PollRaises == [kind |-> "raise", code |-> -1, inner_code |-> -1, cookies |-> <<>>]
PollResult(code, inner_code, cookies) ==
    [kind |-> "result", code |-> code, inner_code |-> inner_code, cookies |-> cookies]
PollOutcomes ==
    {PollRaises}
    \cup {PollResult(0, c, <<>>) :
            c \in {LOGIN_EXPIRED, LOGIN_NOT_CONFIRMED, LOGIN_NOT_SCANNED, -1}}
    \cup {PollResult(0, LOGIN_SUCCESS, ck) : ck \in SetCookies}
    \cup {PollResult(-412, c, <<>>) : c \in {LOGIN_SUCCESS, LOGIN_EXPIRED, -1}}

\* the timeouts a caller can pass, the seconds a poll request can take, the
\* seconds a pause can last beyond the two asked for
Timeouts == -1..MaxTimeout
PollTimes == 0..MaxPollTime
Lateness == {0, 1}

\* lines 214-260: the branch taken for the outcome of a poll; an exception
\* of the poll is caught at line 257
\* (the first variant keeps polling after the expiry code, the second
\* gives up at any outcome that is not a wait code)
poll_action_no_expiry(o) ==
    IF o.kind = "raise" THEN "wait"
    ELSE IF o.code = 0 /\ o.inner_code = LOGIN_SUCCESS THEN "success"
    ELSE "wait"
\* (a third variant decides on the inner code alone)
poll_action_inner_only(o) ==
    IF o.kind = "raise" THEN "wait"
    ELSE IF o.inner_code = LOGIN_SUCCESS THEN "success"
    ELSE IF o.inner_code = LOGIN_EXPIRED THEN "expired"
    ELSE "wait"
poll_action_strict(o) ==
    IF o.kind = "raise" THEN "expired"
    ELSE IF o.code = 0 /\ o.inner_code = LOGIN_SUCCESS THEN "success"
    ELSE IF o.code = 0 /\ o.inner_code \in {LOGIN_NOT_SCANNED, LOGIN_NOT_CONFIRMED} THEN "wait"
    ELSE "expired"
poll_action(o) ==
    IF o.kind = "raise" THEN "wait"
    ELSE IF o.code = 0 /\ o.inner_code = LOGIN_SUCCESS THEN "success"
    ELSE IF o.code = 0 /\ o.inner_code = LOGIN_EXPIRED THEN "expired"
    ELSE IF o.code = 0 /\ o.inner_code \in {LOGIN_NOT_SCANNED, LOGIN_NOT_CONFIRMED} THEN "wait"
    ELSE "wait"

\* lines 222-230: all_cookies: the base cookies, then every cookie of the
\* response under its key (a key already there keeps its place)
RECURSIVE dict_update(_, _, _)
dict_update(d, pairs, i) ==
    IF i > Len(pairs) THEN d
    ELSE dict_update(DictPut(d, pairs[i].k, pairs[i].v), pairs, i + 1)
\* (the variant takes the cookies of the response only)
all_cookies_response_only(o) == dict_update(<<>>, o.cookies, 1)
all_cookies(o) == dict_update(dict_update(<<>>, base_cookies, 1), o.cookies, 1)

\* lines 233-234: "; ".join(f"{key}={value}" ...), as a sequence of pieces
RECURSIVE cookie_string(_, _)
cookie_string(d, i) ==
    IF i > Len(d) THEN <<>>
    ELSE (IF i = 1 THEN <<>> ELSE <<"; ">>) \o <<d[i].k, "=", d[i].v>> \o cookie_string(d, i + 1)

PollStart(at) == [e |-> "poll", at |-> at]
PollEnd(o) == [e |-> "result", out |-> o]
Pause(secs) == [e |-> "sleep", secs |-> secs]

InitAuth ==
    /\ IdleClassify
    /\ IdlePipeline
    /\ IdleFetch
    /\ apc = "check"
    /\ timeout \in Timeouts
    /\ elapsed = 0
    /\ auth_log = <<>>
    /\ aret = None
    /\ IdleClient
    /\ IdleQr /\ IdleConfig

\* (the variant never looks at the deadline: it polls as long as the clock
\* of the model runs)
LoopCheck_no_deadline ==
    /\ apc = "check"
    /\ elapsed <= MaxTimeout
    /\ auth_log' = Append(auth_log, PollStart(elapsed))
    /\ apc' = "polling"
    /\ UNCHANGED <<clsVars, clientVars, qrVars, cfgVars, pipeVars, fetchVars, timeout, elapsed, aret>>

\* (the variant still polls when the timeout has just been reached)
LoopCheck_inclusive ==
    /\ apc = "check"
    /\ IF elapsed <= timeout
       THEN /\ auth_log' = Append(auth_log, PollStart(elapsed))
            /\ apc' = "polling"
            /\ UNCHANGED aret
       ELSE /\ apc' = "done"
            /\ aret' = None
            /\ UNCHANGED auth_log
    /\ UNCHANGED <<clsVars, clientVars, qrVars, cfgVars, pipeVars, fetchVars, timeout, elapsed>>

\* lines 211-213, 262-263: the loop condition: below the timeout the next
\* poll is started, otherwise the wait is given up and None is returned
LoopCheck ==
    /\ apc = "check"
    /\ IF elapsed < timeout
       THEN /\ auth_log' = Append(auth_log, PollStart(elapsed))
            /\ apc' = "polling"
            /\ UNCHANGED aret
       ELSE /\ apc' = "done"
            /\ aret' = None
            /\ UNCHANGED auth_log
    /\ UNCHANGED <<clsVars, clientVars, qrVars, cfgVars, pipeVars, fetchVars, timeout, elapsed>>

\* lines 213-260: the poll ends after some seconds. Success returns the
\* cookie string (the response object of line 219 is always true), expiry
\* returns None, anything else starts the pause.
PollReturns ==
    /\ apc = "polling"
    /\ \E d \in PollTimes, o \in PollOutcomes :
        /\ elapsed' = elapsed + d
        /\ CASE poll_action(o) = "success" ->
                    /\ aret' = Str(cookie_string(all_cookies(o), 1))
                    /\ apc' = "done"
                    /\ auth_log' = Append(auth_log, PollEnd(o))
             [] poll_action(o) = "expired" ->
                    /\ aret' = None
                    /\ apc' = "done"
                    /\ auth_log' = Append(auth_log, PollEnd(o))
             [] OTHER ->
                    /\ apc' = "sleeping"
                    /\ auth_log' = auth_log \o <<PollEnd(o), Pause(sleep_secs)>>
                    /\ UNCHANGED aret
    /\ UNCHANGED <<clsVars, clientVars, qrVars, cfgVars, pipeVars, fetchVars, timeout>>

\* lines 249-260: the pause is over (on time or late); continue
PauseOver ==
    /\ apc = "sleeping"
    /\ \E late \in Lateness : elapsed' = elapsed + sleep_secs + late
    /\ apc' = "check"
    /\ UNCHANGED <<clsVars, clientVars, qrVars, cfgVars, pipeVars, fetchVars, timeout, auth_log, aret>>

NextAuth == LoopCheck \/ PollReturns \/ PauseOver

SpecAuth == InitAuth /\ [][NextAuth]_vars

\* The coroutine is the only one of its event loop and is resumed when the
\* awaited poll (the session gives a request 30 seconds, line 79 of
\* bilibili_auth.py) or the awaited sleep is over: a step that is possible
\* is taken.
SpecAuthFair == SpecAuth /\ WF_vars(NextAuth)

(***************************************************************************)
(* Claims about wait_for_login (checked under SpecAuth).                   *)
(***************************************************************************)
\* the positions of the log that hold the result of a poll
ResultsAt == {i \in 1..Len(auth_log) : auth_log[i].e = "result"}
\* the last poll has ended and this is what it gave
LastOut == auth_log[SetMax(ResultsAt)].out
PollsEnded ==
    /\ apc = "done" /\ ResultsAt # {}
    /\ auth_log[Len(auth_log)].e = "result"

\* the cookie string holds an entry key=value for the key
HasEntry(pieces, key) ==
    \E i \in 1..(Len(pieces) - 2) :
        /\ pieces[i] = key /\ pieces[i + 1] = "="
        /\ i = 1 \/ pieces[i - 1] = "; "
\* a non-empty string with an entry for every base cookie and every cookie
\* of the response
TokenFor(v, o) ==
    /\ v.t = "str" /\ v.s # <<>>
    /\ \A j \in 1..Len(base_cookies) : HasEntry(v.s, base_cookies[j].k)
    /\ \A j \in 1..Len(o.cookies) : HasEntry(v.s, o.cookies[j].k)

\* C17 (as stated): when the wait has ended and the last poll gave the
\* inner code 0, the value returned is a non-empty cookie string with an
\* entry for every base cookie key and every cookie key of that response.
C17_SuccessToken_Original ==
    (/\ apc = "done" /\ ResultsAt # {}
     /\ LastOut.kind = "result" /\ LastOut.inner_code = LOGIN_SUCCESS)
    => TokenFor(aret, LastOut)

\* C17 (amended): the same for a last poll that gave the outer code 0 and
\* the inner code 0.
C17_SuccessToken ==
    (/\ apc = "done" /\ ResultsAt # {}
     /\ LastOut.kind = "result" /\ LastOut.code = 0 /\ LastOut.inner_code = LOGIN_SUCCESS)
    => TokenFor(aret, LastOut)
C17_Witness ==
    /\ PollsEnded /\ Len(auth_log) > 2
    /\ LastOut = PollResult(0, LOGIN_SUCCESS, <<Pair("sid", "s2"), Pair("SESSDATA", "s1")>>)
    /\ aret = Str(<<"buvid3", "=", "b3", "; ", "sid", "=", "s2", "; ", "SESSDATA", "=", "s1">>)

\* C18 (as stated): a poll that gave the inner code 86038 is the last entry
\* of the log: the wait has ended with None and nothing follows the poll.
C18_ExpiryStops_Original ==
    \A i \in ResultsAt :
        (auth_log[i].out.kind = "result" /\ auth_log[i].out.inner_code = LOGIN_EXPIRED)
        => (i = Len(auth_log) /\ apc = "done" /\ aret = None)

\* C18 (amended): the same for a poll that gave the outer code 0 and the
\* inner code 86038.
C18_ExpiryStops ==
    \A i \in ResultsAt :
        (/\ auth_log[i].out.kind = "result" /\ auth_log[i].out.code = 0
         /\ auth_log[i].out.inner_code = LOGIN_EXPIRED)
        => (i = Len(auth_log) /\ apc = "done" /\ aret = None)
C18_Witness ==
    /\ PollsEnded /\ Len(auth_log) = 5
    /\ LastOut = PollResult(0, LOGIN_EXPIRED, <<>>)
    /\ aret = None /\ elapsed < timeout

\* the outcome ends the wait: outer code 0 with the success or expiry code
Terminal(o) ==
    o.kind = "result" /\ o.code = 0 /\ o.inner_code \in {LOGIN_SUCCESS, LOGIN_EXPIRED}

\* C19: every poll was started less than timeout seconds after the start
\* of the wait (none at all for a timeout of 0 or less), and a wait that has
\* ended without a success or expiry outcome has returned None.
C19_TimeoutBound ==
    /\ \A i \in 1..Len(auth_log) :
        auth_log[i].e = "poll" => (0 <= auth_log[i].at /\ auth_log[i].at < timeout)
    /\ timeout <= 0 => auth_log = <<>>
    /\ (apc = "done" /\ \A i \in ResultsAt : ~Terminal(auth_log[i].out))
       => (aret = None /\ elapsed >= timeout)
C19_Witness ==
    /\ apc = "done" /\ aret = None /\ timeout = 4 /\ elapsed >= 4
    /\ Cardinality(ResultsAt) = 2
    /\ \A i \in ResultsAt : ~Terminal(auth_log[i].out)

\* C20: the result of a poll that is no terminal outcome (a wait code, an
\* unrecognised outer or inner code, an exception) is followed by the
\* pause of 2 seconds; after the pause the next poll is started, or the
\* call is still in the pause or at the loop condition, or it has returned
\* None because the timeout was reached.
C20_NonTerminalRetries ==
    \A i \in ResultsAt :
        ~Terminal(auth_log[i].out) =>
            /\ i < Len(auth_log)
            /\ auth_log[i + 1] = Pause(2)
            /\ IF i + 1 < Len(auth_log)
               THEN auth_log[i + 2].e = "poll"
               ELSE \/ apc \in {"sleeping", "check"}
                    \/ apc = "done" /\ aret = None /\ elapsed >= timeout
C20_Witness ==
    /\ apc = "polling" /\ Len(auth_log) = 7
    /\ auth_log[2] = PollEnd(PollRaises)
    /\ auth_log[5] = PollEnd(PollResult(-412, LOGIN_SUCCESS, <<>>))
    /\ auth_log[7].e = "poll"

(***************************************************************************)
(* Claims about the interrupt (checked under SpecInterrupt).               *)
(***************************************************************************)
\* a later move takes the video of an earlier move back to where it was
ReverseMoves ==
    {<<i, j>> \in (1..Len(moves)) \X (1..Len(moves)) :
        /\ i < j /\ moves[j].aid = moves[i].aid
        /\ moves[j].src = moves[i].dst /\ moves[j].dst = moves[i].src}

\* C21: once the interrupt was delivered the run is over: both clients are
\* closed and no step follows (no remote read, no classification request,
\* no move call); the moves issued before it stand, none is reversed.
C21_InterruptAborts ==
    exit = "interrupted"
    => /\ pc = "done"
       /\ ~bili_open /\ ~ai_open
       /\ ~ENABLED NextInterrupt
       /\ ReverseMoves = {}
C21_Witness ==
    /\ exit = "interrupted" /\ pc = "done"
    /\ Len(moves) = 2 /\ Len(table) = 1 /\ table[1].status = "moved"
    /\ ~bili_open /\ ~ai_open

\* C29: however classify_async ends (it ran to its end, returned early for
\* want of folders or videos, caught an exception, or was interrupted), both
\* clients are closed then.
C29_ClientsClosed ==
    pc = "done" => (~bili_open /\ ~ai_open)
C29_Witness ==
    /\ pc = "done" /\ exit = "returned" /\ folders # <<>> /\ videos = <<>>
    /\ ~bili_open /\ ~ai_open

(***************************************************************************)
(* Claims about the move calls (checked under SpecReconcile).              *)
(***************************************************************************)
\* the rows of the move calls that have returned or raised, and the number
\* of move calls issued and not yet over
AnsweredRows == SelectSeq(table, LAMBDA r : r.status \in {"moved", "failed"})
InFlight == Len(moves) - Len(AnsweredRows)

\* C28: at most one move call is in flight, and one is in flight exactly
\* while the loop awaits it; the calls over so far are those of the rows
\* marked moved or failed, in the order of the rows (which is the order of
\* the results), the one in flight is for the result under the cursor, and
\* no item is named by two calls.
C28_MovesSequential ==
    /\ InFlight \in {0, 1}
    /\ (InFlight = 1) <=> (pc = "moving")
    /\ \A k \in 1..Len(AnsweredRows) : moves[k].aid = AnsweredRows[k].video
    /\ \A k \in 1..Len(table) : table[k].video = results[k].video
    /\ pc = "moving" => moves[Len(moves)].aid = results[ri + 1].video
    /\ \A j, k \in 1..Len(moves) : j < k => moves[j].aid < moves[k].aid
    /\ \A k \in 1..Len(moves) : moves[k].aid \in {videos[i] : i \in 1..Len(videos)}
C28_Witness ==
    /\ pc = "moving" /\ Len(moves) = 2 /\ InFlight = 1
    /\ Len(table) = 1 /\ table[1].status = "failed"

(***************************************************************************)
(* The batches (checked under Spec).                                       *)
(***************************************************************************)
\* C30 as stated: whatever batch size the user gives, the batches are cut
\* (no error of the cutting ends the run), and when the batch loop is over
\* every fetched item was submitted, in batches of at most batch_size items
\* (so in at least one request per batch_size items).
C30_BatchesPartition_Original ==
    /\ err # "range"
    /\ (pc \in {"reconcile", "moving", "sleeping"} \/ Completed)
        => /\ off = Len(videos)
           /\ batch_size > 0
           /\ ai_calls * batch_size >= Len(videos)

(***************************************************************************)
(* The answer list of a mapping (checked under SpecClassify).              *)
(***************************************************************************)
\* the mapping a written document parses to (a key written twice is one
\* key of the mapping), and the positions of its values that are lists
RECURSIVE MappingOf(_, _, _)
MappingOf(items, i, acc) ==
    IF i > Len(items) THEN acc
    ELSE MappingOf(items, i + 1, DictPut(acc, items[i].k, items[i].v))
ListPositions(mapping) == {i \in 1..Len(mapping) : mapping[i].v.t = "list"}

\* C27: for a response that parses to a mapping, the answer sequence is the
\* first value that is a list: the call returns it when it has the length of
\* the batch and fails the batch (all slots absent) when it has another
\* length, whatever lists follow it; without any list value the batch fails.
C27_FirstListOfMapping ==
    (/\ cpc = "done" /\ resp.kind = "content"
     /\ resp.wrap \in ArrayWraps /\ resp.doc.t = "dict")
    => LET mapping == MappingOf(resp.doc.items, 1, <<>>)
           lists == ListPositions(mapping)
       IN  IF lists = {} THEN ret = AllNone(nvid)
           ELSE LET first == mapping[CHOOSE i \in lists : \A j \in lists : i <= j].v.items
                IN  ret = IF Len(first) = nvid THEN first ELSE AllNone(nvid)
C27_Witness ==
    /\ cpc = "done" /\ resp.kind = "content" /\ resp.wrap = "plain" /\ nvid = 2
    /\ resp.doc = Dict(<<Pair(<<"k">>, List(<<StrA>>)), Pair(<<"r">>, List(<<StrA, StrB>>))>>)
    /\ ret = <<None, None>>

(***************************************************************************)
(* SpecClient: a BilibiliClient is built from a credential and then used   *)
(* for up to MaxRequests calls of get_favorite_folders,                    *)
(* create_favorite_folder and move_video.                                  *)
(***************************************************************************)
\* What the caller passes for bili_jct: nothing (None), the empty string or
\* a token.
CsrfTokens == {None, Str(<<>>), Str(<<"T">>), Str(<<"U">>)}

\* models.py:21-25: the field bili_jct: str of BiliCredential takes any
\* string, the empty one included, and rejects None with a ValidationError
BiliCredential_raises(bili_jct) == bili_jct.t # "str"

Call(op, rid, source, target, title) ==
    [op |-> op, rid |-> rid, source |-> source, target |-> target, title |-> title]
FolderIds == 1..MaxFolders
MoveCalls == {Call("move_video", 1, src, dst, <<>>) : src \in FolderIds, dst \in FolderIds}
CreateCalls == {Call("create_favorite_folder", 0, 0, 0, <<"A">>)}

\* A request as the remote sees it; fields names the form fields sent.
Request(method, op, fields, call, token) ==
    [method |-> method, op |-> op, fields |-> fields, rid |-> call.rid,
     add_media_ids |-> call.target, del_media_ids |-> call.source,
     title |-> call.title, csrf |-> token]

\* The responses of the remote: none at all (the request fails in
\* transport), a status that is no success, a success whose body is no
\* JSON or is JSON but no object, or an object: with or without "code",
\* and with "data" left out, null, an object without the expected entry, or
\* an object with it (the folder list, the id of the new folder).
KResponse(status, body, has_code, code, data, list, id) ==
    [status |-> status, body |-> body, has_code |-> has_code, code |-> code,
     data |-> data, list |-> list, id |-> id]
RemoteLists ==
    UNION {{[k \in 1..n |-> Folder(ids[k], <<"A">>)] : ids \in [1..n -> FolderIds]}
           : n \in 0..MaxFolders}
Codes == {[has |-> FALSE, code |-> 0], [has |-> TRUE, code |-> 0], [has |-> TRUE, code |-> -101]}
Envelopes(lists, ids) ==
    {KResponse(200, "object", c.has, c.code, d, <<>>, 0) :
        c \in Codes, d \in {"missing", "null", "empty"}}
    \cup {KResponse(200, "object", c.has, c.code, "object", l, i) :
            c \in Codes, l \in lists, i \in ids}
KResponses(op) ==
    {NoResponse,
     KResponse(500, "no_json", FALSE, 0, "missing", <<>>, 0),
     KResponse(200, "no_json", FALSE, 0, "missing", <<>>, 0),
     KResponse(200, "no_object", FALSE, 0, "missing", <<>>, 0)}
    \cup CASE op = "get_favorite_folders"   -> Envelopes(RemoteLists, {0})
           [] op = "create_favorite_folder" -> Envelopes({<<>>}, {7})
           [] OTHER                         -> Envelopes({<<>>}, {0})

Raised(exc) == [t |-> "raised", exc |-> exc, list |-> <<>>, flag |-> FALSE, id |-> 0]
ReturnList(l) == [t |-> "list", exc |-> "none", list |-> l, flag |-> FALSE, id |-> 0]
ReturnBool(b) == [t |-> "bool", exc |-> "none", list |-> <<>>, flag |-> b, id |-> 0]
ReturnId(i) == [t |-> "id", exc |-> "none", list |-> <<>>, flag |-> FALSE, id |-> i]
ReturnNone == [t |-> "None", exc |-> "none", list |-> <<>>, flag |-> FALSE, id |-> 0]

\* the await of get()/post(), raise_for_status() and response.json():
\* the exception raised before the payload is looked at ("none" if none);
\* data.get raises on a body that is no object
transport_raises(r) ==
    IF r.body = "no_response" THEN "RequestError"
    ELSE IF raise_for_status(r) THEN "HTTPStatusError"
    ELSE IF json_raises(r) THEN "JSONDecodeError"
    ELSE IF r.body # "object" THEN "AttributeError"
    ELSE "none"

\* data.get("code")
code_is_zero(r) == r.has_code /\ r.code = 0

\* bilibili_client.py:52-58
get_favorite_folders(r) ==
    IF transport_raises(r) # "none" THEN Raised(transport_raises(r))
    ELSE IF ~code_is_zero(r) THEN Raised("Exception")
    ELSE IF r.data = "null" THEN Raised("AttributeError")
    ELSE ReturnList(r.list)

\* bilibili_client.py:122-128
create_favorite_folder(r) ==
    IF transport_raises(r) # "none" THEN Raised(transport_raises(r))
    ELSE IF ~code_is_zero(r) THEN ReturnNone
    ELSE IF r.data = "null" THEN Raised("AttributeError")
    ELSE IF r.data = "object" THEN ReturnId(r.id)
    ELSE ReturnNone

\* bilibili_client.py:149-152
\* (the variant treats an application code other than 0 as get_favorite_folders does)
move_video_strict(r) ==
    IF transport_raises(r) # "none" THEN Raised(transport_raises(r))
    ELSE IF ~code_is_zero(r) THEN Raised("Exception")
    ELSE ReturnBool(TRUE)
move_video(r) ==
    IF transport_raises(r) # "none" THEN Raised(transport_raises(r))
    ELSE ReturnBool(code_is_zero(r))

InitClient ==
    /\ IdleClassify /\ IdlePipeline /\ IdleFetch /\ IdleAuth /\ IdleQr /\ IdleConfig
    /\ kpc = "new" /\ csrf = None /\ kcall = NoCall /\ http_log = <<>>
    /\ kresp = NoResponse /\ kret = NoReturn

\* models.py:21-25, bilibili_client.py:20-36: the credential is built (or
\* rejected) and the client copies its bili_jct
Construct ==
    /\ kpc = "new"
    /\ \E bili_jct \in CsrfTokens :
        IF BiliCredential_raises(bili_jct)
        THEN kpc' = "failed" /\ UNCHANGED csrf
        ELSE kpc' = "ready" /\ csrf' = bili_jct
    /\ UNCHANGED <<clsVars, pipeVars, fetchVars, authVars, qrVars, cfgVars, kcall, http_log, kresp, kret>>

\* bilibili_client.py:51-52: the one GET of get_favorite_folders
CallFolders ==
    /\ kpc = "ready" /\ Len(http_log) < MaxRequests
    /\ kcall' = Call("get_favorite_folders", 0, 0, 0, <<>>)
    /\ http_log' = Append(http_log, Request("GET", "get_favorite_folders", {"up_mid"}, kcall', None))
    /\ kpc' = "awaiting" /\ kret' = NoReturn
    /\ UNCHANGED <<clsVars, pipeVars, fetchVars, authVars, qrVars, cfgVars, csrf, kresp>>

\* bilibili_client.py:120-121: the one POST of create_favorite_folder
CallCreate ==
    /\ kpc = "ready" /\ Len(http_log) < MaxRequests
    /\ \E c \in CreateCalls :
        /\ kcall' = c
        /\ http_log' = Append(http_log, Request("POST", c.op, {"title", "csrf"}, c, csrf))
    /\ kpc' = "awaiting" /\ kret' = NoReturn
    /\ UNCHANGED <<clsVars, pipeVars, fetchVars, authVars, qrVars, cfgVars, csrf, kresp>>

\* bilibili_client.py:142-149: the one POST of move_video
CallMove ==
    /\ kpc = "ready" /\ Len(http_log) < MaxRequests
    /\ \E c \in MoveCalls :
        /\ kcall' = c
        /\ http_log' = Append(http_log,
                Request("POST", c.op, {"rid", "type", "add_media_ids", "del_media_ids", "csrf"}, c, csrf))
    /\ kpc' = "awaiting" /\ kret' = NoReturn
    /\ UNCHANGED <<clsVars, pipeVars, fetchVars, authVars, qrVars, cfgVars, csrf, kresp>>

\* the response arrives (or the request fails) and the call returns or raises
Respond ==
    /\ kpc = "awaiting"
    /\ \E r \in KResponses(kcall.op) :
        /\ kresp' = r
        /\ kret' = CASE kcall.op = "get_favorite_folders"   -> get_favorite_folders(r)
                     [] kcall.op = "create_favorite_folder" -> create_favorite_folder(r)
                     [] OTHER                               -> move_video(r)
    /\ kpc' = "ready"
    /\ UNCHANGED <<clsVars, pipeVars, fetchVars, authVars, qrVars, cfgVars, csrf, kcall, http_log>>

NextClient == Construct \/ CallFolders \/ CallCreate \/ CallMove \/ Respond

SpecClient == InitClient /\ [][NextClient]_vars

(***************************************************************************)
(* Claims about BilibiliClient (checked under SpecClient).                 *)
(***************************************************************************)
Mutating(req) == req.method = "POST"

Answered(op) == kpc = "ready" /\ kcall.op = op /\ kret.t # "none"
Non2xx(r) == r.body # "no_response" /\ (r.status < 200 \/ r.status > 299)
ObjectWithCode0(r) ==
    /\ r.body = "object" /\ r.status >= 200 /\ r.status <= 299
    /\ r.has_code /\ r.code = 0

\* a step that starts a call of move_video sends one request, a POST that
\* names the item, the destination to add to and the source to delete
\* from; no other step of the call sends anything
OnePostPerMove ==
    /\ (kpc = "ready" /\ kpc' = "awaiting" /\ kcall'.op = "move_video")
        => /\ Len(http_log') = Len(http_log) + 1
           /\ SubSeq(http_log', 1, Len(http_log)) = http_log
           /\ LET req == http_log'[Len(http_log')]
              IN  /\ req.method = "POST"
                  /\ {"rid", "add_media_ids", "del_media_ids"} \subseteq req.fields
                  /\ req.rid = kcall'.rid
                  /\ req.add_media_ids = kcall'.target
                  /\ req.del_media_ids = kcall'.source
    /\ kpc = "awaiting" => http_log' = http_log

\* C23 as stated: one POST per call that names destination and source; the
\* call raises only when no response came or the HTTP status is no success,
\* and otherwise returns true exactly for the application code 0.
C23_MoveVideo_Original ==
    Answered("move_video") =>
        /\ kret.t = "raised" <=> (kresp.body = "no_response" \/ Non2xx(kresp))
        /\ kret.t # "raised" => (kret.t = "bool" /\ (kret.flag <=> (kresp.has_code /\ kresp.code = 0)))

\* C23: one POST per call that names destination and source; the call
\* raises exactly when no response came, the HTTP status is no success or
\* the body is no JSON object, and otherwise returns true for the
\* application code 0 and false for any other (or no) application code.
C23_MoveVideo ==
    /\ [][OnePostPerMove]_vars
    /\ [](Answered("move_video") =>
            /\ kret.t = "raised"
                <=> (kresp.body = "no_response" \/ Non2xx(kresp) \/ kresp.body # "object")
            /\ kret.t # "raised"
                => (kret.t = "bool" /\ (kret.flag <=> (kresp.has_code /\ kresp.code = 0))))
C23_Witness ==
    /\ Answered("move_video") /\ kcall.source = 1 /\ kcall.target = 2
    /\ kresp.status = 200 /\ kresp.body = "object" /\ kresp.has_code /\ kresp.code = -101
    /\ kret = ReturnBool(FALSE)
    /\ Len(http_log) = 1 /\ http_log[1].add_media_ids = 2 /\ http_log[1].del_media_ids = 1

\* C24 as stated: get_favorite_folders raises when the status is no success
\* or the application code is not 0, and for every other response with a
\* JSON object it returns the folders the remote listed, in their order.
C24_FoldersInOrder_Original ==
    Answered("get_favorite_folders") =>
        /\ (Non2xx(kresp) \/ (kresp.body = "object" /\ ~(kresp.has_code /\ kresp.code = 0)))
            => kret.t = "raised"
        /\ ObjectWithCode0(kresp) => (kret.t = "list" /\ kret.list = kresp.list)

(***************************************************************************)
(* SpecQr: BilibiliAuth.generate_qrcode, called up to MaxGenerate times on *)
(* one object, inside the context manager (session open) or outside it.    *)
(***************************************************************************)
\* The responses to the generate request: none (the connection fails), a
\* status other than 200, a 200 whose body has no JSON content type, has
\* one and is no JSON, is JSON but no object, or is an object: with or
\* without "code", with "data" left out, null, or an object whose
\* qrcode_key and url are each absent, empty or a string.
QrResponse(status, body, has_code, code, data, key, url) ==
    [status |-> status, body |-> body, has_code |-> has_code, code |-> code,
     data |-> data, key |-> key, url |-> url]
QrFields == {None, Str(<<>>), Str(<<"K">>)}
QrResponses ==
    {NoQrResponse}
    \cup {QrResponse(st, "object", TRUE, 0, "object", Str(<<"K">>), Str(<<"K">>)) : st \in {201, 500}}
    \cup {QrResponse(200, b, FALSE, 0, "missing", None, None) : b \in {"no_json_type", "bad_json", "no_object"}}
    \cup {QrResponse(200, "object", c.has, c.code, d, None, None) : c \in Codes, d \in {"missing", "null"}}
    \cup {QrResponse(200, "object", c.has, c.code, "object", k, u) : c \in Codes, k \in QrFields, u \in QrFields}

QrRaised(exc) == [t |-> "raised", exc |-> exc, key |-> None, url |-> None]
QrReturn(key, url) == [t |-> "value", exc |-> "none", key |-> key, url |-> url]

\* what a call does with the response: the outcome and the two fields
QrOutcome(out, key, url) == [ret |-> out, key |-> key, url |-> url]

\* bilibili_auth.py:101-126
generate_qrcode(r, key, url) ==
    IF r.body = "no_response" THEN QrOutcome(QrRaised("BilibiliAuthError"), key, url)
    ELSE IF r.status # 200 THEN QrOutcome(QrRaised("BilibiliAuthError"), key, url)
    ELSE IF r.body = "no_json_type" THEN QrOutcome(QrRaised("BilibiliAuthError"), key, url)
    ELSE IF r.body = "bad_json" THEN QrOutcome(QrRaised("JSONDecodeError"), key, url)
    ELSE IF r.body = "no_object" THEN QrOutcome(QrRaised("AttributeError"), key, url)
    ELSE IF ~(r.has_code /\ r.code = 0) THEN QrOutcome(QrRaised("BilibiliAuthError"), key, url)
    ELSE IF r.data = "null" THEN QrOutcome(QrRaised("AttributeError"), key, url)
    ELSE IF ~Truthy(r.key) \/ ~Truthy(r.url)
         THEN QrOutcome(QrRaised("BilibiliAuthError"), r.key, r.url)
    ELSE QrOutcome(QrReturn(r.key, r.url), r.key, r.url)

InitQr ==
    /\ IdleClassify /\ IdlePipeline /\ IdleFetch /\ IdleAuth /\ IdleClient /\ IdleConfig
    /\ qpc = "ready" /\ session \in BOOLEAN
    /\ qrcode_key = None /\ qrcode_url = None
    /\ qcalls = 0 /\ qresp = NoQrResponse /\ qret = NoQrReturn

\* bilibili_auth.py:90-105: without a session the call raises at once,
\* with one it sends the request
GenerateCall ==
    /\ qpc = "ready" /\ qcalls < MaxGenerate
    /\ qcalls' = qcalls + 1
    /\ qresp' = NoQrResponse
    /\ IF session
       THEN qpc' = "awaiting" /\ qret' = NoQrReturn
       ELSE qpc' = "ready" /\ qret' = QrRaised("RuntimeError")
    /\ UNCHANGED <<clsVars, pipeVars, fetchVars, authVars, clientVars, cfgVars, session, qrcode_key, qrcode_url>>

\* bilibili_auth.py:106-126: the response arrives (or the connection fails)
GenerateReturns ==
    /\ qpc = "awaiting"
    /\ \E r \in QrResponses :
        LET out == generate_qrcode(r, qrcode_key, qrcode_url)
        IN  /\ qresp' = r
            /\ qret' = out.ret
            /\ qrcode_key' = out.key
            /\ qrcode_url' = out.url
    /\ qpc' = "ready"
    /\ UNCHANGED <<clsVars, pipeVars, fetchVars, authVars, clientVars, cfgVars, session, qcalls>>

NextQr == GenerateCall \/ GenerateReturns

SpecQr == InitQr /\ [][NextQr]_vars

(***************************************************************************)
(* Claims about generate_qrcode (checked under SpecQr).                    *)
(***************************************************************************)
\* a call has ended on a response it received
QrAnswered == qpc = "ready" /\ qret.t # "none" /\ qresp.body # "no_response"
\* the payload is an object without a non-empty qrcode_key or url
LacksKeyOrUrl(r) ==
    r.body = "object" /\ (r.data # "object" \/ ~Truthy(r.key) \/ ~Truthy(r.url))

\* C25 as stated: the call raises BilibiliAuthError whenever the status is
\* not 200, the code of the payload is not 0, or the payload has no
\* non-empty qrcode_key or url; it returns only with both non-empty.
C25_GenerateFails_Original ==
    QrAnswered =>
        /\ (\/ qresp.status # 200
            \/ qresp.body = "object" /\ ~(qresp.has_code /\ qresp.code = 0)
            \/ LacksKeyOrUrl(qresp))
            => qret = QrRaised("BilibiliAuthError")
        /\ qret.t = "value"
            => /\ Truthy(qret.key) /\ Truthy(qret.url)
               /\ qrcode_key = qret.key /\ qrcode_url = qret.url

(***************************************************************************)
(* Termination of wait_for_login (checked under SpecAuthFair).             *)
(***************************************************************************)
\* C26: whatever the polls give and however long polls and pauses take,
\* the wait ends; and a loop condition evaluated when the measured time has
\* reached the timeout ends it there, however many polls were made.
C26_WaitTerminates ==
    /\ <>(apc = "done")
    /\ [][(apc = "check" /\ elapsed >= timeout) => apc' = "done"]_vars
C26_Witness ==
    /\ apc = "done" /\ aret = None /\ timeout = 1 /\ elapsed = 4
    /\ Len(auth_log) = 3 /\ auth_log[2] = PollEnd(PollRaises)

(***************************************************************************)
(* An application failure on a page (checked under SpecFetch).             *)
(***************************************************************************)
\* the page has a success status and the envelope of an application
\* failure: a JSON object whose data is null
AppFailure(page) ==
    page.status >= 200 /\ page.status <= 299 /\ page.body = "null_data"

\* C31 as stated: a call that was served a page with an application
\* failure has failed; it has not returned a list.
C31_AppFailureRaises_Original ==
    \A k \in 1..Len(served) :
        (AppFailure(served[k]) /\ fpc \in {"returned", "raised"}) => fpc = "raised"

(***************************************************************************)
(* The destinations of the move calls (checked under SpecReconcile).       *)
(***************************************************************************)
\* the ids of the folders the user designated as targets
TargetIds == {folders[targets[j]].id : j \in 1..Len(targets)}

\* C32 as stated: no move call has the selected folder as its destination.
C32_NoMoveToSource_Original ==
    \A m \in 1..Len(moves) : moves[m].dst # moves[m].src

\* C33 as stated: the destination of every move call is the id of a
\* designated target folder.
C33_DestinationIsTarget_Original ==
    \A m \in 1..Len(moves) : moves[m].dst \in TargetIds

\* C34 as stated: a reconciled result whose answer, with the blanks around
\* it removed, is the title of a designated target folder is not marked
\* skipped_invalid.  (The claim goes on to say that a move is attempted;
\* its first half is what is stated here.)
C34_ExactTitleMoved_Original ==
    \A i \in 1..Len(table) :
        (\E t \in 1..Len(targets) : strip(results[i].category) = folders[targets[t]].title)
        => table[i].status # "skipped_invalid"

(***************************************************************************)
(* The number of page requests (checked under SpecFetch).                  *)
(***************************************************************************)
\* C35 as stated, for the page bound of the exploration: whatever the
\* server answers, the call ends without wanting a page beyond the
\* MaxPages-th.  (The loop of lines 77-106 has no exit of its own: after
\* MaxPages pages that are non-empty and say has_more it stands at the top
\* of the loop with page number MaxPages + 1, for every MaxPages.)
C35_RequestsBounded_Original ==
    page_number <= MaxPages

(***************************************************************************)
(* Where the token of wait_for_login comes from (checked under SpecAuth).  *)
(***************************************************************************)
\* the poll gave a result with a non-zero outer code, or without an inner
\* code (poll_login_status puts -1 for a missing inner code)
OuterFailedOrNoInner(o) ==
    o.kind = "result" /\ (o.code # 0 \/ o.inner_code = -1)

\* C36: a value other than None is returned only when the last entry of the
\* log is the result of a poll with outer code 0 and inner code 0 (the
\* return is the direct result of that poll); and the result of a poll with
\* a non-zero outer code or without an inner code is followed in the log by
\* the pause (the wait goes on), so it is never the poll that ended the
\* wait or gave the token.
C36_TokenOnlyFromSuccess ==
    /\ aret # None =>
        /\ apc = "done" /\ auth_log # <<>>
        /\ auth_log[Len(auth_log)].e = "result"
        /\ auth_log[Len(auth_log)].out.kind = "result"
        /\ auth_log[Len(auth_log)].out.code = 0
        /\ auth_log[Len(auth_log)].out.inner_code = LOGIN_SUCCESS
    /\ \A i \in ResultsAt :
        OuterFailedOrNoInner(auth_log[i].out)
        => (i < Len(auth_log) /\ auth_log[i + 1].e = "sleep")
C36_Witness ==
    /\ apc = "done" /\ aret # None /\ Len(auth_log) = 8
    /\ auth_log[2] = PollEnd(PollResult(-412, LOGIN_SUCCESS, <<>>))
    /\ auth_log[5] = PollEnd(PollResult(0, -1, <<>>))
    /\ auth_log[8] = PollEnd(PollResult(0, LOGIN_SUCCESS, <<Pair("SESSDATA", "s1")>>))

(***************************************************************************)
(* SpecConfig: ensure_config_is_ready (cli.py:36-71).  A cookie is a       *)
(* string of pieces (a name, "=", a value, the separator "; "); an AI      *)
(* configuration is a dict; a credential is the dict of its three fields.  *)
(***************************************************************************)
\* config_manager.py:50: the names validate_cookie looks for
required_fields == <<"SESSDATA", "bili_jct", "DedeUserID">>
\* interactive_config.py:47: the keys of a complete AI configuration
required_keys == <<"openai_api_key", "openai_base_url", "model_name">>

\* config_manager.py:48-51: all(field in cookie for field in
\* required_fields): every name occurs in the text (here: as a piece)
validate_cookie(cookie) ==
    \A f \in 1..Len(required_fields) :
        \E i \in 1..Len(cookie) : cookie[i] = required_fields[f]

\* config_manager.py:35, 40, 45: re.search(name + '=([^;]+)', cookie) and
\* group(1): the value after the first name= that is followed by at least
\* one character other than ';' (values are single pieces here), or None
re_search_value(name, cookie) ==
    LET hits == {i \in 1..(Len(cookie) - 2) :
                    cookie[i] = name /\ cookie[i + 1] = "=" /\ cookie[i + 2] \notin {"; ", "="}}
    IN  IF hits = {} THEN None
        ELSE Str(<<cookie[(CHOOSE i \in hits : \A j \in hits : i <= j) + 2]>>)
extract_csrf_from_cookie(cookie) == re_search_value("bili_jct", cookie)
extract_vmid_from_cookie(cookie) == re_search_value("DedeUserID", cookie)
extract_sessdata_from_cookie(cookie) == re_search_value("SESSDATA", cookie)

\* config_manager.py:25-31: load_dotenv(.env) with its default
\* override=False: a variable of the file is put into os.environ only when
\* the environment does not hold it yet
load_env_file(env, file) == IF env = None THEN file ELSE env

\* models.py:21-25
BiliCredential(bili_jct, sessdata, dedeuserid) ==
    Dict(<<Pair("bili_jct", bili_jct), Pair("sessdata", sessdata), Pair("dedeuserid", dedeuserid)>>)

\* config_manager.py:218-239, for cookie = os.getenv("BILIBILI_COOKIE")
\* after load_env_file: None unless the cookie is there, passes
\* validate_cookie and yields the three values
load_bili_credential(cookie) ==
    IF ~Truthy(cookie) \/ ~validate_cookie(cookie.s) THEN None
    ELSE LET bili_jct == extract_csrf_from_cookie(cookie.s)
             dedeuserid == extract_vmid_from_cookie(cookie.s)
             sessdata == extract_sessdata_from_cookie(cookie.s)
         IN  IF ~(Truthy(bili_jct) /\ Truthy(dedeuserid) /\ Truthy(sessdata)) THEN None
             ELSE BiliCredential(bili_jct.s, sessdata.s, dedeuserid.s)

\* config_manager.py:204-216: {} when ai_config.json is missing or cannot
\* be read, its content otherwise
load_ai_config(file) == IF file = None THEN Dict(<<>>) ELSE file

\* a cookie string with the three fields, written as wait_for_login and a
\* browser write it
CookieOf(tag) ==
    Str(cookie_string(<<Pair("SESSDATA", "s" \o tag), Pair("bili_jct", "c" \o tag),
                        Pair("DedeUserID", "u" \o tag)>>, 1))
\* what BILIBILI_COOKIE can hold before the run, in the environment and in
\* the .env file: nothing, a cookie that lacks two of the fields, a cookie
\* with the three fields
SavedCookies == {None, Str(<<"SESSDATA", "=", "s0">>), CookieOf("0")}

\* an AI configuration with the given keys
AiConfig(keys) == Dict([i \in 1..Len(keys) |-> Pair(keys[i], "v")])
\* what ai_config.json can be before the run: missing, an old
\* configuration with one key, a complete one
AiFiles == {None, AiConfig(<<"model_name">>), AiConfig(required_keys)}

\* bilibili_auth.py:217-237 and interactive_config.py:121-172: what
\* _qrcode_login can give: None (time-out, expiry, an exception), or the
\* cookie string wait_for_login builds from the base cookies and the
\* cookies the remote set with the successful poll (none, the session
\* cookie alone, or the three fields)
LoginSetCookies ==
    SetCookies \cup {<<Pair("SESSDATA", "s1"), Pair("bili_jct", "c1"), Pair("DedeUserID", "u1")>>}
QrLoginResults ==
    {None} \cup {Str(cookie_string(all_cookies(PollResult(0, LOGIN_SUCCESS, ck)), 1)) :
                    ck \in LoginSetCookies}

\* what the user can type at the cookie prompt: nothing, blanks, a cookie
\* that lacks fields, a text that names the three fields but gives
\* SESSDATA no value, a cookie with the three fields
ManualInputs ==
    {Str(<<>>), Str(<<WS>>), Str(<<"SESSDATA", "=", "s1">>),
     Str(<<"SESSDATA", "=", "; ", "bili_jct", "=", "c1", "; ", "DedeUserID", "=", "u1">>),
     CookieOf("1")}

\* interactive_config.py:174-199: _manual_cookie_input: None for an empty
\* input and for one that fails validate_cookie (the user may type again:
\* that is another input), the input otherwise
manual_cookie_input(cookie) ==
    IF strip(cookie.s) = <<>> THEN None
    ELSE IF ~validate_cookie(cookie.s) THEN None
    ELSE cookie

ConfigReturn(bili_config, ai_config) == [how |-> "return", bili |-> bili_config, ai |-> ai_config]
ConfigExit == [how |-> "exit", bili |-> None, ai |-> None]

InitConfig ==
    /\ IdleClassify /\ IdlePipeline /\ IdleFetch /\ IdleAuth /\ IdleClient /\ IdleQr
    /\ gpc = "start"
    /\ environ \in SavedCookies
    /\ dotenv \in SavedCookies
    /\ ai_config_file \in AiFiles
    /\ setup = [cookie |-> None, ai |-> None]
    /\ gret = [how |-> "none", bili |-> None, ai |-> None]

\* cli.py:40-50: the ConfigManager is made (it loads .env), the credential
\* and the AI configuration are loaded; when both are there they are
\* returned, otherwise the interactive setup starts
LoadConfig ==
    /\ gpc = "start"
    /\ environ' = load_env_file(environ, dotenv)
    /\ LET bili_config == load_bili_credential(environ')
           ai_config == load_ai_config(ai_config_file)
       IN  IF Truthy(bili_config) /\ Truthy(ai_config)
           THEN gpc' = "returned" /\ gret' = ConfigReturn(bili_config, ai_config)
           ELSE gpc' = "setup_ai" /\ UNCHANGED gret
    /\ UNCHANGED <<clsVars, pipeVars, fetchVars, authVars, clientVars, qrVars,
                   dotenv, ai_config_file, setup>>

\* interactive_config.py:39-104: get_ai_config_interactive: a saved
\* configuration that is complete is used when the user agrees; otherwise
\* the three values are asked for (the key until it is not empty) and the
\* new configuration is written to ai_config.json when the user agrees
GetAiConfig ==
    /\ gpc = "setup_ai"
    /\ \E use_saved \in BOOLEAN, save \in BOOLEAN :
        LET saved_config == load_ai_config(ai_config_file)
            complete == \A k \in 1..Len(required_keys) :
                            \E i \in 1..Len(saved_config.items) :
                                saved_config.items[i].k = required_keys[k]
        IN  IF Truthy(saved_config) /\ complete /\ use_saved
            THEN /\ setup' = [setup EXCEPT !.ai = saved_config]
                 /\ UNCHANGED ai_config_file
            ELSE /\ setup' = [setup EXCEPT !.ai = AiConfig(required_keys)]
                 /\ ai_config_file' = IF save THEN AiConfig(required_keys) ELSE ai_config_file
    /\ gpc' = "setup_auth"
    /\ UNCHANGED <<clsVars, pipeVars, fetchVars, authVars, clientVars, qrVars,
                   environ, dotenv, gret>>

\* interactive_config.py:106-119: get_bilibili_auth_interactive: the QR
\* login or the manual input
GetBilibiliAuth ==
    /\ gpc = "setup_auth"
    /\ \E cookie \in QrLoginResults \cup {manual_cookie_input(c) : c \in ManualInputs} :
        setup' = [setup EXCEPT !.cookie = cookie]
    /\ gpc' = "setup_done"
    /\ UNCHANGED <<clsVars, pipeVars, fetchVars, authVars, clientVars, qrVars,
                   environ, dotenv, ai_config_file, gret>>

\* cli.py:56-71: with a cookie and an AI configuration both are saved
\* (set_key writes .env and leaves os.environ alone), loaded again and
\* returned as loaded; otherwise sys.exit(1)
FinishSetup ==
    /\ gpc = "setup_done"
    /\ IF Truthy(setup.cookie) /\ Truthy(setup.ai)
       THEN /\ dotenv' = setup.cookie
            /\ ai_config_file' = setup.ai
            /\ environ' = load_env_file(environ, dotenv')
            /\ gret' = ConfigReturn(load_bili_credential(environ'), load_ai_config(ai_config_file'))
            /\ gpc' = "returned"
       ELSE /\ gret' = ConfigExit
            /\ gpc' = "exited"
            /\ UNCHANGED <<environ, dotenv, ai_config_file>>
    /\ UNCHANGED <<clsVars, pipeVars, fetchVars, authVars, clientVars, qrVars, setup>>

NextConfig == LoadConfig \/ GetAiConfig \/ GetBilibiliAuth \/ FinishSetup

SpecConfig == InitConfig /\ [][NextConfig]_vars

(***************************************************************************)
(* Claims about ensure_config_is_ready (checked under SpecConfig).         *)
(***************************************************************************)
\* C37 as stated: a call that has returned gave a credential that is not
\* None and whose three fields are not empty, and an AI configuration that
\* is not empty.
C37_ReadyOrExit_Original ==
    gpc = "returned" =>
        /\ gret.bili # None
        /\ \A i \in 1..Len(gret.bili.items) : gret.bili.items[i].v # <<>>
        /\ gret.ai.items # <<>>

====
